---------------------------- MODULE Spec2Model ----------------------------
(***************************************************************************)
(* safe-action: the action builder (createActionBuilder), its chain        *)
(* methods, and the callable that execute() compiles: input validation,    *)
(* default context, middleware stack, handler, output validation, hooks.   *)
(*                                                                         *)
(* JavaScript values are tagged records: Undef, Null, Obj(f) for a plain   *)
(* object whose own keys are DOMAIN f.  A thrown value is a record tagged  *)
(* ActionError, NextSignal (a redirect / not-found signal of the host      *)
(* framework), Error, or Other (a thrown non-error value).  A message is   *)
(* the sequence of its lines.                                              *)
(***************************************************************************)
EXTENDS Naturals, Sequences, FiniteSets, TLC

\* ------------------------------------------------------------------ bounds
MaxMw == 2          \* middlewares of a definition of the family checked
MaxHooks == 2       \* hooks per lifecycle of a definition of the family
MaxInv == 2         \* invocations of the compiled action (they may overlap)
MaxBuilders == 3    \* builders a chain creates (SpecChain)
MaxFragments == 2   \* schema fragments per direction (SpecSchema)
MaxAsyncHooks == 3  \* hooks per lifecycle, synchronous or not (SpecHooks)
MaxMetaCalls == 2   \* meta() calls of a chain (SpecMeta)

\* ------------------------------------------------------------------ values
Undef == [t |-> "undefined"]
Null == [t |-> "null"]
Obj(f) == [t |-> "obj", v |-> f]
EmptyFn == [k \in {} |-> "s1"]
EmptyObj == Obj(EmptyFn)
\* a string or a number, and an array with the elements of s
Prim(v) == [t |-> "primitive", v |-> v]
Arr(s) == [t |-> "array", v |-> s]

IsNullish(x) == x = Undef \/ x = Null
IsObj(x) == x.t = "obj"
\* a ?? b
Coalesce(a, b) == IF IsNullish(a) THEN b ELSE a
\* the truthiness test of `if (x)` on the values of the model
Truthy(x) == ~IsNullish(x)
\* {...a, ...b} on the key maps of two objects
Spread(f, g) ==
  [k \in (DOMAIN f) \cup (DOMAIN g) |-> IF k \in DOMAIN g THEN g[k] ELSE f[k]]

Keys == {"a", "b"}
StrVals == {"s1", "s2"}
NumVals == {"n1"}
TypeOf(x) == IF x \in StrVals THEN "string" ELSE "number"

\* ------------------------------------------------------------------ errors
Codes ==
  {"UNAUTHORIZED", "NOT_FOUND", "INTERNAL_ERROR", "BAD_REQUEST", "FORBIDDEN",
   "CONFLICT", "ERROR", "TIMEOUT", "PAYLOAD_TOO_LARGE", "TOO_MANY_REQUESTS",
   "PARSE_INPUT_ERROR", "PARSE_OUTPUT_ERROR", "MIDDLEWARE_ERROR", "NEXT_ERROR"}

DEFAULT_ERROR_MESSAGES(code) ==
  CASE code = "ERROR" -> <<"Error">>
    [] code = "TIMEOUT" -> <<"Timeout">>
    [] code = "CONFLICT" -> <<"Conflict">>
    [] code = "NOT_FOUND" -> <<"Not found">>
    [] code = "FORBIDDEN" -> <<"Forbidden">>
    [] code = "NEXT_ERROR" -> <<"Next error">>
    [] code = "BAD_REQUEST" -> <<"Bad request">>
    [] code = "UNAUTHORIZED" -> <<"Unauthorized">>
    [] code = "INTERNAL_ERROR" -> <<"Internal error">>
    [] code = "MIDDLEWARE_ERROR" -> <<"Middleware error">>
    [] code = "PAYLOAD_TOO_LARGE" -> <<"Payload too large">>
    [] code = "TOO_MANY_REQUESTS" -> <<"Too many requests">>
    [] code = "PARSE_INPUT_ERROR" -> <<"Error parsing input">>
    [] code = "PARSE_OUTPUT_ERROR" -> <<"Error parsing output">>

\* a generic Error value (new Error(message, {cause}))
GenericError(message, cause) == [t |-> "Error", message |-> message, cause |-> cause]
\* a redirect / not-found signal of the host framework: an Error the
\* framework recognises (isRedirectError / isNotFoundError)
NextSignal(kind) == [t |-> "NextSignal", kind |-> kind, message |-> <<kind>>, cause |-> Undef]
\* a thrown value that is no Error at all (throw "text")
OtherThrown == [t |-> "Other"]

IsErrorInstance(x) == x.t \in {"Error", "NextSignal", "ActionError"}

\* typeof cause === "object"
IsObjectType(x) == x.t \in {"null", "obj", "array"} \/ IsErrorInstance(x)
\* String(cause) of a value that is no object
StringOf(x) == IF "v" \in DOMAIN x THEN <<x.v>> ELSE <<x.t>>
\* new UnknownCauseError() with the keys of the object copied onto it
UnknownCauseError(f) == [t |-> "Error", message |-> <<>>, cause |-> Undef, own |-> f]

getCauseFromUnknown(cause) ==
  IF IsErrorInstance(cause) THEN cause
  ELSE IF cause = Undef \/ cause.t = "function" \/ cause = Null THEN Undef
  ELSE IF ~IsObjectType(cause) THEN GenericError(StringOf(cause), Undef)
  ELSE IF IsObj(cause) THEN UnknownCauseError(cause.v)
  ELSE Undef

\* new ActionError(props): props has a code and, possibly, a message (when
\* it has the key, the message is a string) and a cause
PropOf(props, key) == IF key \in DOMAIN props THEN props[key] ELSE Undef

\* The class declares the field `cause` without an initializer. Whether the
\* declaration defines the field anew after super(message, { cause }) has
\* set it (leaving it undefined) or declares a type only depends on the
\* class-field semantics the build compiles to, which is fixed per build.
VARIABLE defineFields
\* the keys and values of the object that a provider written
\* `() => shared` returns at every call, to every invocation
VARIABLE shared

\* a constructor that prefers the default message of the code to the
\* message of the cause
defaultBeforeCause(props, define) ==
  LET cause == getCauseFromUnknown(PropOf(props, "cause"))
  IN [t |-> "ActionError", code |-> props.code,
      message |-> IF "message" \in DOMAIN props THEN props.message
                  ELSE DEFAULT_ERROR_MESSAGES(props.code),
      cause |-> IF define THEN Undef ELSE cause]

\* the constructor under the class-field semantics `define`
newActionError(props, define) ==
  LET cause == getCauseFromUnknown(PropOf(props, "cause"))
      message == IF "message" \in DOMAIN props THEN props.message
                 ELSE IF cause # Undef THEN cause.message
                 ELSE DEFAULT_ERROR_MESSAGES(props.code)
  IN [t |-> "ActionError", code |-> props.code, message |-> message,
      cause |-> IF define THEN Undef ELSE cause]

ActionError(props) == newActionError(props, defineFields)

\* isRedirectError(error) || isNotFoundError(error): the value carries the
\* mark by which the host framework recognises its signals
isNextError(error) == "kind" \in DOMAIN error

\* a classification that looks for the framework's mark first
signalFirst(error) ==
  IF isNextError(error)
    THEN [cause |-> error, code |-> "NEXT_ERROR", message |-> error.message]
  ELSE IF error.t = "ActionError"
    THEN [code |-> error.code, cause |-> error.cause, message |-> error.message]
  ELSE IF IsErrorInstance(error)
    THEN [code |-> "ERROR", cause |-> error.cause, message |-> error.message]
  ELSE [code |-> "INTERNAL_ERROR", message |-> <<"An unexpected error has occurred">>]

getFormattedError(error) ==
  IF error.t = "ActionError"
    THEN [code |-> error.code, cause |-> error.cause, message |-> error.message]
  ELSE IF isNextError(error)
    THEN [cause |-> error, code |-> "NEXT_ERROR", message |-> error.message]
  ELSE IF IsErrorInstance(error)
    THEN [code |-> "ERROR", cause |-> error.cause, message |-> error.message]
  ELSE [code |-> "INTERNAL_ERROR", message |-> <<"An unexpected error has occurred">>]


\* ----------------------------------------------------------------- schemas
\* A schema fragment is a zod object: its shape maps each key to the type of
\* the key's value.  Unknown keys are stripped by a successful parse.
Shape(f) == [shape |-> f]
SchemaA == Shape([a |-> "string"])
SchemaB == Shape([b |-> "number"])
SchemaA2 == Shape([a |-> "number"])
Fragments == {SchemaA, SchemaB, SchemaA2}

\* a merge in which the schema merged into keeps its type on a clash
mergeKeepsEarlier(acc, schema) == Shape(Spread(schema.shape, acc.shape))

\* acc.merge(schema): the keys of both, the merged-in schema's type on a clash
SchemaMerge(acc, schema) == Shape(Spread(acc.shape, schema.shape))

RECURSIVE Reduce(_, _)
Reduce(schemas, acc) ==
  IF schemas = <<>> THEN acc
  ELSE Reduce(Tail(schemas), SchemaMerge(acc, Head(schemas)))

combineSchema(schemas) == Reduce(schemas, Shape(EmptyFn))

\* schema.safeParse(data): the keys whose value is missing or of the wrong
\* type are the field errors; data that is no object at all is an error with
\* no field errors
BadKeys(schema, data) ==
  {k \in DOMAIN schema.shape :
     k \notin DOMAIN data.v \/ TypeOf(data.v[k]) # schema.shape[k]}

Issue(schema, data, k) ==
  IF k \notin DOMAIN data.v THEN "Required"
  ELSE "Expected " \o schema.shape[k] \o ", received " \o TypeOf(data.v[k])

safeParse(schema, data) ==
  IF ~IsObj(data) THEN [success |-> FALSE, fieldErrors |-> {}]
  ELSE IF BadKeys(schema, data) # {}
    THEN [success |-> FALSE, fieldErrors |-> BadKeys(schema, data)]
  ELSE [success |-> TRUE,
        data |-> Obj([k \in DOMAIN schema.shape |-> data.v[k]])]

\* the field errors in key order, one line each
KeyOrder == <<"a", "b">>

RECURSIVE ErrorLines(_, _, _, _)
ErrorLines(schema, data, schemaType, i) ==
  IF i > Len(KeyOrder) THEN <<>>
  ELSE (IF KeyOrder[i] \in BadKeys(schema, data)
          THEN << "Error parsing " \o schemaType \o " at param: " \o KeyOrder[i]
                  \o " - " \o Issue(schema, data, KeyOrder[i]) >>
          ELSE <<>>)
       \o ErrorLines(schema, data, schemaType, i + 1)

\* a code table that tags every parse failure as an input failure
alwaysInputCode(schemaType) == "PARSE_INPUT_ERROR"

\* a code table that tags every parse failure as an output failure
alwaysOutputCode(schemaType) == "PARSE_OUTPUT_ERROR"

schemaCodeErrors(schemaType) ==
  IF schemaType = "input" THEN "PARSE_INPUT_ERROR" ELSE "PARSE_OUTPUT_ERROR"

\* a parseSchema that validates even when no schema is registered
parseAlways(def, schema, data, schemaType) ==
  LET parsedValues == safeParse(schema, data) IN
  IF ~parsedValues.success
    THEN [success |-> FALSE,
          error |-> ActionError([code |-> schemaCodeErrors(schemaType),
                                 message |-> <<"Error parsing schema">>])]
    ELSE [success |-> TRUE, data |-> parsedValues.data]

\* parseSchema of a builder with definition def
parseSchema(def, schema, data, schemaType) ==
  IF schemaType = "input" /\ Len(def.inputs) = 0
    THEN [success |-> TRUE, data |-> data]
  ELSE IF schemaType = "output" /\ Len(def.outputs) = 0
    THEN [success |-> TRUE, data |-> data]
  ELSE LET parsedValues == safeParse(schema, data) IN
    IF ~parsedValues.success
      THEN LET message == IF IsObj(data)
                            THEN ErrorLines(schema, data, schemaType, 1)
                            ELSE <<>>
               defaultMessage == <<"Error parsing schema">>
           IN [success |-> FALSE,
               error |-> ActionError(
                 [code |-> schemaCodeErrors(schemaType),
                  message |-> IF Len(message) = 0 THEN defaultMessage ELSE message])]
      ELSE [success |-> TRUE, data |-> parsedValues.data]

\* isSuccess on the results of parseSchema and executeMiddleware, which carry
\* the success flag of Success<T> / Failure
isSuccess(result) == result.success


\* Result<T> of errors.ts: { data: T; error: null } | { data: null; error:
\* JSONError }, and its two predicates
SuccessResult(data) == [data |-> data, error |-> Null]
FailureResult(error) == [data |-> Null, error |-> error]
isSuccessByError(result) == result.error = Null
isFailure(result) == result.data = Null

\* ------------------------------------------------------------- definitions
\* The definition (_def) of a builder.  Middlewares, hooks, the default
\* context provider and the error handler are functions of the caller: the
\* definition holds their names, and what each does when it is called
\* (which value it returns, what it throws, whether it calls next) is
\* chosen when it is called.
Fn(name) == [t |-> "function", name |-> name]
Callable(x) == x.t = "function"

HookTypes == {"onSuccess", "onError", "onSettled"}
MwNames == <<"m1", "m2", "m3">>
HookNames == <<"h1", "h2", "h3", "h4">>
MetaA == Obj([a |-> "s1"])
MetaB == Obj([b |-> "n1"])

\* createActionBuilder(initDef): the defaults, overridden by every key that
\* initDef has (a key given as undefined overrides too)
createActionBuilder(initDef) ==
  [meta |-> IF "meta" \in DOMAIN initDef THEN initDef.meta ELSE EmptyObj,
   hooks |-> IF "hooks" \in DOMAIN initDef THEN initDef.hooks ELSE EmptyFn,
   inputs |-> IF "inputs" \in DOMAIN initDef THEN initDef.inputs ELSE <<>>,
   outputs |-> IF "outputs" \in DOMAIN initDef THEN initDef.outputs ELSE <<>>,
   middlewares |-> IF "middlewares" \in DOMAIN initDef
                     THEN initDef.middlewares ELSE <<>>,
   defaultContext |-> IF "defaultContext" \in DOMAIN initDef
                        THEN initDef.defaultContext ELSE EmptyObj,
   errorHandler |-> IF "errorHandler" \in DOMAIN initDef
                      THEN initDef.errorHandler ELSE Undef]

\* CreateActionBuilder.create(opts) of the factory
create(opts) ==
  createActionBuilder(
    [meta |-> PropOf(opts, "defaultMeta"),
     errorHandler |-> PropOf(opts, "errorHandler"),
     defaultContext |-> PropOf(opts, "defaultContext")])

OrEmpty(def2, key) == IF key \in DOMAIN def2 THEN def2[key] ELSE <<>>

createNewActionBuilder(def1, def2) ==
  LET meta == PropOf(def2, "meta")
  IN createActionBuilder(
    [errorHandler |-> Coalesce(PropOf(def2, "errorHandler"), def1.errorHandler),
     defaultContext |-> Coalesce(PropOf(def2, "defaultContext"), def1.defaultContext),
     inputs |-> def1.inputs \o OrEmpty(def2, "inputs"),
     outputs |-> def1.outputs \o OrEmpty(def2, "outputs"),
     middlewares |-> def1.middlewares \o OrEmpty(def2, "middlewares"),
     meta |-> IF Truthy(def1.meta) /\ Truthy(meta)
                THEN Obj(Spread(def1.meta.v, meta.v))
                ELSE Coalesce(meta, def1.meta),
     hooks |-> IF "hooks" \in DOMAIN def2
                 THEN Spread(def1.hooks, def2.hooks) ELSE def1.hooks])

\* the chain methods of a builder with definition def
HooksOf(def, type) == IF type \in DOMAIN def.hooks THEN def.hooks[type] ELSE <<>>

\* a middleware method that registers fn before the middlewares registered
middlewareFirst(def, fn) ==
  [createNewActionBuilder(def, [middlewares |-> <<>>])
     EXCEPT !.middlewares = <<fn>> \o @]

metaMethod(def, meta) == createNewActionBuilder(def, [meta |-> meta])
\* an input method that starts the hooks and the meta of the new builder afresh
inputResetsOthers(def, schema) ==
  [createNewActionBuilder(def, [inputs |-> <<schema>>])
     EXCEPT !.hooks = EmptyFn, !.meta = EmptyObj]

inputMethod(def, schema) == createNewActionBuilder(def, [inputs |-> <<schema>>])
outputMethod(def, schema) == createNewActionBuilder(def, [outputs |-> <<schema>>])
\* a hook method that puts the new hook in front of the registered ones
hookFirst(def, type, fn) ==
  createNewActionBuilder(def, [hooks |-> [k \in {type} |-> <<fn>> \o HooksOf(def, type)]])

hookMethod(def, type, fn) ==
  createNewActionBuilder(def, [hooks |-> [k \in {type} |-> Append(HooksOf(def, type), fn)]])
middlewareMethod(def, fn) == createNewActionBuilder(def, [middlewares |-> <<fn>>])


\* ------------------------------------------------------------------- state
VARIABLES
  builders,      \* the builders created so far; builders[b] is the _def of b
  compiled,      \* the builder whose execute() made the action; 0: none yet
  ctx,           \* `let ctx` of execute(): one per compiled action
  parsedInput,   \* `let parsedInput` of execute()
  parsedOutput,  \* `let parsedOutput` of execute()
  inv            \* the invocations of the compiled action

vars == <<defineFields, shared, builders, compiled, ctx, parsedInput, parsedOutput, inv>>

Invs == 1..MaxInv
Def == builders[compiled]

\* What the caller's functions may do when called, and what the caller may
\* pass.  Invocation i passes and returns values of its own (s1 for
\* invocation 1, s2 for invocation 2), so that a value of one invocation is
\* told from a value of the other.
OwnStr(i) == IF i = 1 THEN "s1" ELSE "s2"
PatchA == Obj([a |-> "s1"])
PatchB == Obj([b |-> "n1"])
CtxDefault == Obj([a |-> "s2"])
Boom == GenericError(<<"boom">>, Undef)
Redirect == NextSignal("NEXT_REDIRECT")
\* new ActionError({ code: "BAD_REQUEST" }): with no cause given, the same
\* value in every build
BadRequest == newActionError([code |-> "BAD_REQUEST"], FALSE)
ThrowVals == {Boom, BadRequest, Redirect, OtherThrown}

Returns(values) == [act : {"return"}, value : values]
Throws(errors) == [act : {"throw"}, error : errors]
Nexts(patches) == [act : {"next"}, patch : patches]

\* no raw input, an object with a and b, an object that lacks a
RawInputs(i) == {Undef, Obj([a |-> OwnStr(i), b |-> "n1"]), Obj([b |-> "n1"])}
ProviderActs == Returns({CtxDefault}) \cup Throws({Boom, Redirect})
\* a middleware: return next(), return next({ctx: patch}), return a value
\* without calling next, or throw
MwActs ==
  Nexts({Undef, PatchA, PatchB}) \cup Returns({Undef, PatchB})
    \cup Throws({Boom, BadRequest, Redirect})
HandlerActs(i) ==
  Returns({Undef, Null, Obj([a |-> OwnStr(i), b |-> "n1"])}) \cup Throws(ThrowVals)
ErrorHandlerActs == Returns({Undef}) \cup Throws({Boom})
\* a hook returns or throws an error; an onSuccess hook may also raise a
\* redirect signal; an asynchronous hook returns a promise that is still
\* pending
HookActs == Returns({Undef}) \cup Throws({Boom, Redirect})
Promised == [act |-> "pending"]
HookActsOf(type) ==
  IF type = "onSuccess" THEN HookActs \cup {Promised}
  ELSE Returns({Undef}) \cup Throws({Boom}) \cup {Promised}
\* the promise of a hook fulfils or rejects
SettleActs == Returns({Undef}) \cup Throws({Boom})

Pending == [kind |-> "pending"]
Resolved(value) == [kind |-> "resolved", value |-> value]
Rejected(error) == [kind |-> "rejected", value |-> error]

Idle ==
  [pc |-> "idle", rawInput |-> Undef, input |-> Undef, idx |-> 0, stack |-> <<>>,
   stackResult |-> Undef, hArgs |-> Undef, rawData |-> Undef, error |-> Undef,
   batch |-> "none", phase |-> "none", k |-> 0, opts |-> Undef, detached |-> 0,
   dropped |-> 0, again |-> 0,
   completion |-> Pending, outcome |-> Pending, log |-> <<>>]

\* the trace of an invocation: the functions of the caller that ran, with
\* what they were given and whether they returned or threw, the hook batches
\* started, and the failures raised in the pipeline
Logged(l, event) == [l EXCEPT !.log = Append(@, event)]
Raised(l, site, error) ==
  Logged(l, [ev |-> "raised", site |-> site, error |-> error])


\* ---------------------------------------------------------------- execute
\* The callable of execute() is an async function: it runs until it awaits a
\* function of the caller (the provider, a middleware, the handler, the error
\* handler, a hook) or a hook batch, and another invocation may run in
\* between.  A step of an invocation is one such function running, followed
\* by the code of execute() up to the next await.  l is the invocation's own
\* state; c, pI and pO are the values of ctx, parsedInput and parsedOutput
\* that the code reads in that step.

\* a next that passes the patch alone to the next level
patchOnly(prevCtx, patch) == patch

\* a next that lets the keys of the current context win over the patch
patchUnder(prevCtx, patch) ==
  IF Truthy(patch)
    THEN Obj(Spread(patch.v, IF Truthy(prevCtx) THEN prevCtx.v ELSE EmptyFn))
    ELSE prevCtx

\* next(opts) of executeMiddlewareStack: the context of the next level
nextContext(prevCtx, patch) ==
  LET copied == IF Truthy(prevCtx) THEN Obj(prevCtx.v) ELSE Undef
  IN IF Truthy(patch)
       THEN Obj(Spread(IF copied = Undef THEN EmptyFn ELSE copied.v, patch.v))
       ELSE copied

\* a next that assigned opts.ctx into the object it was given
assignedInPlace(prevCtx, patch) == nextContext(prevCtx, patch)

\* next(opts) of executeMiddlewareStack: what the object it was given as
\* prevCtx holds once next has run.  next spreads prevCtx into a new object
\* and opts.ctx into that one; it assigns nothing to prevCtx.
prevCtxAfterNext(prevCtx, patch) == prevCtx

\* The first level is given the object the provider returned, and a later
\* level an object that next built.  What `shared` holds after the middleware
\* of level j has called next(opts) with opts.ctx = patch.
sharedAfterNext(def, l, j, patch) ==
  IF j = 1 /\ Truthy(def.defaultContext) /\ l.stack[1] = shared
    THEN prevCtxAfterNext(shared, patch)
    ELSE shared

\* a stack in which every level returns what its middleware returned, with
\* no context to fall back on
returnedAsIs(stack, level, resultFn) == resultFn


\* the value the levels level, level-1, ..., 1 of executeMiddlewareStack
\* return when level `level` got resultFn: each one returns
\* (await resultFn) ?? prevCtx
RECURSIVE stackReturn(_, _, _)
stackReturn(stack, level, resultFn) ==
  IF level = 0 THEN resultFn
  ELSE stackReturn(stack, level - 1, Coalesce(resultFn, stack[level]))

\* The middleware of level `level` has returned resultFn and the levels
\* return.  When some middleware awaited next(...) and returned nothing,
\* l.dropped is the outermost such level (0 when there is none), and what the
\* levels inside it return is lost there.  When the middleware of level
\* l.again awaited next() in order to call it a second time (0 when none
\* did), the levels return to that middleware, which calls next() again: the
\* stack is entered once more at the level after it.
stackDone(l, level, resultFn) ==
  IF l.again # 0
    THEN [l EXCEPT !.idx = l.again + 1,
                   !.stack = Append(SubSeq(l.stack, 1, l.again),
                                    nextContext(l.stack[l.again], Undef)),
                   !.again = 0,
                   !.dropped = IF @ > l.again THEN 0 ELSE @]
    ELSE [l EXCEPT !.pc = "ctxReady",
                   !.stackResult =
                     IF l.dropped # 0 THEN stackReturn(l.stack, l.dropped, Undef)
                     ELSE stackReturn(l.stack, level, resultFn)]

\* executeHooks(hooks[type], opts) is called
startBatch(l, type, phase, opts) ==
  Logged([l EXCEPT !.pc = "hooks", !.batch = type, !.phase = phase, !.k = 1,
                   !.opts = opts],
         [ev |-> "batch", type |-> type, phase |-> phase])

successOpts(def, l, c, pI) ==
  [ctx |-> c, meta |-> def.meta, rawInput |-> l.rawInput, input |-> pI]
errorOpts(def, l, c, formattedError) ==
  [ctx |-> c, meta |-> def.meta, rawInput |-> l.rawInput, error |-> formattedError]
settledOpts(def, l, c) ==
  [ctx |-> c, meta |-> def.meta, rawInput |-> l.rawInput]

\* a finally block that settles without running onSettled
finallyWithoutSettled(def, l, completion, c) ==
  [l EXCEPT !.pc = "done", !.outcome = completion]

\* the finally block: the completion of try / catch is kept, onSettled runs
finallyBlock(def, l, completion, c) ==
  startBatch([l EXCEPT !.completion = completion], "onSettled", "finally",
             settledOpts(def, l, c))

\* a catch block that re-raises whatever it caught
alwaysRethrow(def, l, c, pI) ==
  startBatch(l, "onSuccess", "rethrow", successOpts(def, l, c, pI))

\* a catch block that treats every caught error as a failure
alwaysFail(def, l, c, pI) ==
  startBatch(l, "onError", "fail",
             errorOpts(def, l, c, getFormattedError(l.error)))

\* the catch block after the error handler (if any) has returned
afterErrorHandler(def, l, c, pI) ==
  LET formattedError == getFormattedError(l.error) IN
  IF formattedError.code = "NEXT_ERROR"
    THEN startBatch(l, "onSuccess", "rethrow", successOpts(def, l, c, pI))
    ELSE startBatch(l, "onError", "fail", errorOpts(def, l, c, formattedError))

\* a catch block that does not call the error handler
catchWithoutHandler(def, l, error, c, pI) ==
  afterErrorHandler(def, [l EXCEPT !.error = error], c, pI)

\* the catch block is entered with the caught error
catchBlock(def, l, error, c, pI) ==
  IF Truthy(def.errorHandler)
    THEN [l EXCEPT !.pc = "errorHandler", !.error = error]
    ELSE afterErrorHandler(def, [l EXCEPT !.error = error], c, pI)

\* an execute() that reports every failure of executeMiddleware as
\* MIDDLEWARE_ERROR
wrapAsMiddlewareError(def, l, error, c, pI) ==
  catchBlock(def, l, ActionError([code |-> "MIDDLEWARE_ERROR"]), c, pI)

\* executeMiddleware caught error: execute() throws an ActionError made of
\* the formatted error
middlewareFailed(def, l, error, c, pI) ==
  catchBlock(def, l, ActionError(getFormattedError(error)), c, pI)

\* an executeMiddlewareStack whose promise never settles
stackNeverSettles(def, l, prevCtx) == [l EXCEPT !.pc = "awaitingStack"]

\* executeMiddlewareStack is entered at level 1 with prevCtx
startStack(def, l, prevCtx) ==
  IF Len(def.middlewares) = 0
    THEN [l EXCEPT !.pc = "ctxReady", !.stackResult = prevCtx]
    ELSE [l EXCEPT !.pc = "middleware", !.idx = 1, !.stack = <<prevCtx>>]

\* a success that carries the handler's return value as it is
rawResult(pO, rawData) == [success |-> TRUE, data |-> rawData]

\* the value execute() returns on success
successResult(pO, rawData) == [success |-> TRUE, data |-> Coalesce(pO, rawData)]
failureResult(formattedError) == [success |-> FALSE, error |-> formattedError]

\* The action is called with rawInput: input validation, then
\* executeMiddleware up to its first call of a function of the caller.
Invoke(i, rawInput) ==
  /\ compiled # 0
  /\ inv[i].pc = "idle"
  /\ LET l == [inv[i] EXCEPT !.rawInput = rawInput]
         inputParseResult ==
           parseSchema(Def, combineSchema(Def.inputs), rawInput, "input")
     IN IF ~isSuccess(inputParseResult)
          THEN /\ inv' = [inv EXCEPT ![i] =
                    catchBlock(Def, Raised(l, "input", inputParseResult.error),
                               ActionError(inputParseResult.error),
                               ctx, parsedInput)]
               /\ UNCHANGED parsedInput
          ELSE /\ parsedInput' = inputParseResult.data
               /\ inv' = [inv EXCEPT ![i] =
                    LET l2 == [l EXCEPT !.input = inputParseResult.data] IN
                    IF Truthy(Def.defaultContext)
                      THEN [l2 EXCEPT !.pc = "provider"]
                      ELSE startStack(Def, l2, Undef)]
  /\ UNCHANGED <<defineFields, shared, builders, compiled, ctx, parsedOutput>>

\* _def.defaultContext() runs
ProviderStep(i, a) ==
  /\ inv[i].pc = "provider"
  /\ LET returned == Callable(Def.defaultContext) /\ a.act = "return"
         l == Logged(inv[i],
                [ev |-> "provider",
                 act |-> IF returned THEN "return" ELSE "throw",
                 value |-> IF returned THEN a.value ELSE Undef])
         notAFunction ==
           GenericError(<<"_def.defaultContext is not a function">>, Undef)
     IN inv' = [inv EXCEPT ![i] =
       IF ~Callable(Def.defaultContext)
         THEN middlewareFailed(Def, Raised(l, "provider", notAFunction),
                               notAFunction, ctx, parsedInput)
       ELSE IF a.act = "throw"
         THEN middlewareFailed(Def, Raised(l, "provider", a.error), a.error,
                               ctx, parsedInput)
       ELSE startStack(Def, l, a.value)]
  /\ UNCHANGED <<defineFields, shared, builders, compiled, ctx, parsedInput, parsedOutput>>

\* the middleware of level idx runs
MiddlewareStep(i, a) ==
  /\ inv[i].pc = "middleware"
  /\ a.act = "twice" =>
       /\ inv[i].idx < Len(Def.middlewares)
       /\ \A p \in 1..Len(inv[i].log) :
            inv[i].log[p].ev = "middleware" => inv[i].log[p].act # "twice"
  /\ LET j == inv[i].idx
         prevCtx == inv[i].stack[j]
         l == Logged(inv[i],
                [ev |-> "middleware", idx |-> j, name |-> Def.middlewares[j],
                 ctx |-> prevCtx, input |-> inv[i].input,
                 rawInput |-> inv[i].rawInput, meta |-> Def.meta, act |-> a.act,
                 patch |-> IF a.act \in {"next", "await"} THEN a.patch ELSE Undef,
                 value |-> IF a.act = "return" THEN a.value ELSE Undef])
         \* `await next(...)` with nothing returned: the level drops the
         \* result; `await next(); return next()`: the level calls next again
         l2 == IF a.act = "await" /\ l.dropped = 0 THEN [l EXCEPT !.dropped = j]
               ELSE IF a.act = "twice" THEN [l EXCEPT !.again = j]
               ELSE l
         patch == IF a.act = "twice" THEN Undef ELSE a.patch
     IN inv' = [inv EXCEPT ![i] =
       IF a.act = "throw"
         THEN middlewareFailed(Def, Raised(l, "middleware", a.error), a.error,
                               ctx, parsedInput)
       ELSE IF a.act = "return"
         THEN stackDone(l, j, a.value)
       ELSE IF j < Len(Def.middlewares)
         THEN [l2 EXCEPT !.idx = j + 1,
                         !.stack = Append(@, nextContext(prevCtx, patch))]
       ELSE stackDone(l2, j, nextContext(prevCtx, patch))]
  /\ shared' = IF a.act \in {"next", "await"}
                 THEN sharedAfterNext(Def, inv[i], inv[i].idx, a.patch)
               ELSE IF a.act = "twice"
                 THEN sharedAfterNext(Def, inv[i], inv[i].idx, Undef)
               ELSE shared
  /\ UNCHANGED <<defineFields, builders, compiled, ctx, parsedInput, parsedOutput>>

\* The middleware of level idx calls next({ ctx: patch }) and neither awaits
\* nor returns its promise, then returns undefined.  next runs up to the call
\* of the middleware of the next level, whose promise nothing of the
\* invocation waits for; the levels idx, ..., 1 return the context they got.
\* detached is the level of the middleware that runs apart, 0 when none.
DetachStep(i, patch) ==
  /\ inv[i].pc = "middleware"
  /\ inv[i].detached = 0
  /\ inv[i].idx < Len(Def.middlewares)
  /\ LET j == inv[i].idx
         prevCtx == inv[i].stack[j]
         l == Logged(inv[i],
                [ev |-> "middleware", idx |-> j, name |-> Def.middlewares[j],
                 ctx |-> prevCtx, input |-> inv[i].input,
                 rawInput |-> inv[i].rawInput, meta |-> Def.meta,
                 act |-> "detach", patch |-> patch, value |-> Undef])
         called == Logged(l, [ev |-> "detachedCall", idx |-> j + 1])
     IN inv' = [inv EXCEPT ![i] =
          stackDone([called EXCEPT !.detached = j + 1], j, Undef)]
  /\ shared' = sharedAfterNext(Def, inv[i], inv[i].idx, patch)
  /\ UNCHANGED <<defineFields, builders, compiled, ctx, parsedInput, parsedOutput>>

\* the middleware that runs apart comes to its end: it returns or throws
\* (nothing receives either), or it returns next(), which calls the
\* middleware of the next level if there is one
DetachedSettles(i, a) ==
  /\ inv[i].detached # 0
  /\ LET j == inv[i].detached
         l == Logged(inv[i], [ev |-> "detachedSettled", idx |-> j, act |-> a.act])
     IN inv' = [inv EXCEPT ![i] =
          IF a.act = "next" /\ j < Len(Def.middlewares)
            THEN Logged([l EXCEPT !.detached = j + 1],
                        [ev |-> "detachedCall", idx |-> j + 1])
            ELSE [l EXCEPT !.detached = 0]]
  /\ UNCHANGED <<defineFields, shared, builders, compiled, ctx, parsedInput, parsedOutput>>

\* execute() resumes with the context of executeMiddleware and calls handler
CtxReady(i) ==
  /\ inv[i].pc = "ctxReady"
  /\ ctx' = inv[i].stackResult
  /\ inv' = [inv EXCEPT ![i] =
       [@ EXCEPT !.pc = "handler",
                 !.hArgs = [ctx |-> inv[i].stackResult, input |-> parsedInput]]]
  /\ UNCHANGED <<defineFields, shared, builders, compiled, parsedInput, parsedOutput>>

\* the handler runs; output validation; the onSuccess batch is started
HandlerStep(i, a) ==
  /\ inv[i].pc = "handler"
  /\ LET l == Logged(inv[i], [ev |-> "handler", ctx |-> inv[i].hArgs.ctx,
                              input |-> inv[i].hArgs.input, act |-> a.act])
         outputParseResult ==
           parseSchema(Def, combineSchema(Def.outputs), a.value, "output")
     IN IF a.act = "throw"
          THEN /\ inv' = [inv EXCEPT ![i] =
                    catchBlock(Def, Raised(l, "handler", a.error), a.error,
                               ctx, parsedInput)]
               /\ UNCHANGED parsedOutput
        ELSE IF ~isSuccess(outputParseResult)
          THEN /\ inv' = [inv EXCEPT ![i] =
                    catchBlock(Def,
                               Raised([l EXCEPT !.rawData = a.value], "output",
                                      outputParseResult.error),
                               ActionError(outputParseResult.error),
                               ctx, parsedInput)]
               /\ UNCHANGED parsedOutput
        ELSE /\ parsedOutput' = outputParseResult.data
             /\ inv' = [inv EXCEPT ![i] =
                  startBatch([l EXCEPT !.rawData = a.value], "onSuccess", "try",
                             successOpts(Def, l, ctx, parsedInput))]
  /\ UNCHANGED <<defineFields, shared, builders, compiled, ctx, parsedInput>>

\* the error handler runs
ErrorHandlerStep(i, a) ==
  /\ inv[i].pc = "errorHandler"
  /\ LET returned == Callable(Def.errorHandler) /\ a.act = "return"
         notAFunction ==
           GenericError(<<"builder._def.errorHandler is not a function">>, Undef)
         l == Logged(inv[i], [ev |-> "errorHandler",
                              error |-> getFormattedError(inv[i].error),
                              act |-> IF returned THEN "return" ELSE "throw",
                              thrown |-> IF returned THEN Undef
                                         ELSE IF Callable(Def.errorHandler)
                                           THEN a.error
                                         ELSE notAFunction])
     IN inv' = [inv EXCEPT ![i] =
       IF ~Callable(Def.errorHandler)
         THEN finallyBlock(Def, l, Rejected(notAFunction), ctx)
       ELSE IF a.act = "throw"
         THEN finallyBlock(Def, l, Rejected(a.error), ctx)
       ELSE afterErrorHandler(Def, l, ctx, parsedInput)]
  /\ UNCHANGED <<defineFields, shared, builders, compiled, ctx, parsedInput, parsedOutput>>

\* a loop of executeHooks that goes on to the next hook whatever the hook did
hookFailureIgnored(def, l, a, c, pI) == [l EXCEPT !.pc = "hooks", !.k = @ + 1]

\* an onSuccess batch that is awaited outside the try block: what a hook
\* throws is never caught
hookFailureSkipsCatch(def, l, a, c, pI) ==
  IF a.act = "return" THEN [l EXCEPT !.pc = "hooks", !.k = @ + 1]
  ELSE IF l.phase = "finally"
    THEN [l EXCEPT !.pc = "done", !.outcome = Rejected(a.error)]
  ELSE finallyBlock(def, l, Rejected(a.error), c)

\* `await executeHook(hook, opts)` has completed with a: the loop of
\* executeHooks goes on to the next hook, or the rejection leaves the batch
\* for the catch block, the finally block or the caller
afterHook(def, l, a, c, pI) ==
  IF a.act = "return" THEN [l EXCEPT !.pc = "hooks", !.k = @ + 1]
  ELSE IF l.phase = "try" THEN catchBlock(def, l, a.error, c, pI)
  ELSE IF l.phase = "finally"
    THEN [l EXCEPT !.pc = "done", !.outcome = Rejected(a.error)]
  ELSE finallyBlock(def, l, Rejected(a.error), c)

\* hook k of the running batch is called (executeHook): it returns, throws,
\* or returns a promise that executeHook awaits
HookStep(i, a) ==
  /\ inv[i].pc = "hooks"
  /\ inv[i].k <= Len(HooksOf(Def, inv[i].batch))
  /\ a \in HookActsOf(inv[i].batch)
  /\ LET l == Logged(inv[i], [ev |-> "hook", type |-> inv[i].batch,
                              k |-> inv[i].k,
                              name |-> HooksOf(Def, inv[i].batch)[inv[i].k],
                              opts |-> inv[i].opts,
                              phase |-> inv[i].phase, act |-> a.act,
                              thrown |-> IF a.act = "throw" THEN a.error
                                         ELSE Undef])
     IN inv' = [inv EXCEPT ![i] =
       IF a.act = "pending" THEN [l EXCEPT !.pc = "hookPending"]
       ELSE afterHook(Def, l, a, ctx, parsedInput)]
  /\ UNCHANGED <<defineFields, shared, builders, compiled, ctx, parsedInput, parsedOutput>>

\* the promise that hook k returned settles: `await resultHook` resumes
HookSettles(i, a) ==
  /\ inv[i].pc = "hookPending"
  /\ LET l == Logged(inv[i], [ev |-> "hookSettled", type |-> inv[i].batch,
                              k |-> inv[i].k,
                              name |-> HooksOf(Def, inv[i].batch)[inv[i].k],
                              phase |-> inv[i].phase, act |-> a.act,
                              thrown |-> IF a.act = "throw" THEN a.error
                                         ELSE Undef])
     IN inv' = [inv EXCEPT ![i] = afterHook(Def, l, a, ctx, parsedInput)]
  /\ UNCHANGED <<defineFields, shared, builders, compiled, ctx, parsedInput, parsedOutput>>

\* executeHooks has returned: execute() resumes after `await executeHooks`
HooksDone(i) ==
  /\ inv[i].pc = "hooks"
  /\ inv[i].k > Len(HooksOf(Def, inv[i].batch))
  /\ LET l == inv[i] IN
     inv' = [inv EXCEPT ![i] =
       IF l.phase = "try"
         THEN finallyBlock(Def, l,
                Resolved(successResult(parsedOutput, l.rawData)), ctx)
       ELSE IF l.phase = "rethrow"
         THEN finallyBlock(Def, l, Rejected(l.error), ctx)
       ELSE IF l.phase = "fail"
         THEN finallyBlock(Def, l,
                Resolved(failureResult(getFormattedError(l.error))), ctx)
       ELSE [l EXCEPT !.pc = "done", !.outcome = l.completion]]
  /\ UNCHANGED <<defineFields, shared, builders, compiled, ctx, parsedInput, parsedOutput>>


\* ------------------------------------------------------------------- specs
\* The definitions checked: a root builder of the factory (create) or of
\* createActionBuilder() itself, then input, output, middleware and hook
\* calls of the chain.
RECURSIVE withMiddlewares(_, _)
withMiddlewares(def, n) ==
  IF n = 0 THEN def
  ELSE middlewareMethod(withMiddlewares(def, n - 1), MwNames[n])

RECURSIVE withHooks(_, _, _)
withHooks(def, type, n) ==
  IF n = 0 THEN def
  ELSE hookMethod(withHooks(def, type, n - 1), type, HookNames[n])

Roots ==
  {create(EmptyFn),
   create([defaultContext |-> Fn("provider")]),
   create([errorHandler |-> Fn("errorHandler")]),
   create([defaultContext |-> Fn("provider"), errorHandler |-> Fn("errorHandler"),
           defaultMeta |-> MetaA]),
   createActionBuilder(EmptyFn)}

chained(root, hasInput, hasOutput, nMw, nHooks) ==
  LET d1 == IF hasInput THEN inputMethod(root, SchemaA) ELSE root
      d2 == IF hasOutput THEN outputMethod(d1, SchemaA) ELSE d1
      d3 == withMiddlewares(d2, nMw)
  IN withHooks(withHooks(withHooks(d3, "onSuccess", nHooks), "onError", nHooks),
               "onSettled", nHooks)

\* up to MaxMw middlewares with at most one hook per lifecycle, or up to
\* MaxHooks hooks per lifecycle with at most one middleware
Sizes ==
  {s \in (0..MaxMw) \X (0..MaxHooks) : s[1] <= 1 \/ s[2] <= 1}

DefFamily ==
  {chained(root, hasInput, hasOutput, s[1], s[2]) :
     root \in Roots, hasInput \in BOOLEAN, hasOutput \in BOOLEAN, s \in Sizes}

Init ==
  /\ defineFields \in BOOLEAN
  /\ shared = CtxDefault
  /\ builders \in {<<def>> : def \in DefFamily}
  /\ compiled = 1
  /\ ctx = Undef
  /\ parsedInput = Undef
  /\ parsedOutput = Undef
  /\ inv = [i \in Invs |-> Idle]

\* one step of invocation i
Step(i) ==
  \/ \E rawInput \in RawInputs(i) : Invoke(i, rawInput)
  \/ \E a \in ProviderActs : ProviderStep(i, a)
  \/ \E a \in MwActs : MiddlewareStep(i, a)
  \/ CtxReady(i)
  \/ \E a \in HandlerActs(i) : HandlerStep(i, a)
  \/ \E a \in ErrorHandlerActs : ErrorHandlerStep(i, a)
  \/ \E a \in HookActs : HookStep(i, a)
  \/ HooksDone(i)

\* Spec: one invocation of the action of each definition of the family
Next == Step(1)

Spec == Init /\ [][Next]_vars

\* SpecLive: one invocation of an action with MaxMw middlewares and one hook
\* per lifecycle, with or without a provider, an error handler and schemas.
\* Every function of the caller that is called comes to its end, and the
\* code between two awaits runs: the step that is enabled is taken.
InitLive ==
  /\ defineFields \in BOOLEAN
  /\ shared = CtxDefault
  /\ builders \in
       {<<chained(root, hasSchemas, hasSchemas, MaxMw, 1)>> :
          root \in {create(EmptyFn),
                    create([defaultContext |-> Fn("provider"),
                            errorHandler |-> Fn("errorHandler")])},
          hasSchemas \in BOOLEAN}
  /\ compiled = 1
  /\ ctx = Undef
  /\ parsedInput = Undef
  /\ parsedOutput = Undef
  /\ inv = [i \in Invs |-> Idle]

SpecLive == InitLive /\ [][Next]_vars /\ WF_vars(Next)

\* SpecPair: the invocations of Invs of one compiled action, overlapping in
\* every way the awaits of execute() allow.  The definition has a provider,
\* an error handler, one middleware and one hook per lifecycle, with or
\* without an input and an output schema; every
\* function of the caller works with values of the invocation it runs in.
PairFamily ==
  {chained(create([defaultContext |-> Fn("provider"),
                   errorHandler |-> Fn("errorHandler")]),
           hasSchemas, hasSchemas, 1, 1) :
     hasSchemas \in BOOLEAN}

OwnObj(i) == Obj([a |-> OwnStr(i), b |-> "n1"])
OwnPatch(i) == Obj([a |-> OwnStr(i)])

InitPair ==
  /\ defineFields \in BOOLEAN
  /\ shared = CtxDefault
  /\ builders \in {<<def>> : def \in PairFamily}
  /\ compiled = 1
  /\ ctx = Undef
  /\ parsedInput = Undef
  /\ parsedOutput = Undef
  /\ inv = [i \in Invs |-> Idle]

StepPair(i) ==
  \/ \E rawInput \in RawInputs(i) : Invoke(i, rawInput)
  \/ \E a \in Returns({shared}) : ProviderStep(i, a)
  \/ \E a \in Nexts({OwnPatch(i)}) : MiddlewareStep(i, a)
  \/ CtxReady(i)
  \/ \E a \in Returns({OwnObj(i)}) \cup Throws({Boom}) : HandlerStep(i, a)
  \/ \E a \in Returns({Undef}) : ErrorHandlerStep(i, a)
  \/ \E a \in Returns({Undef}) : HookStep(i, a)
  \/ HooksDone(i)

NextPair == \E i \in Invs : StepPair(i)

SpecPair == InitPair /\ [][NextPair]_vars

\* SpecSeq: the invocations of Invs of one compiled action, one after the
\* other: an invocation is called when the ones before it are over.
NextSeq ==
  \E i \in Invs : (\A j \in 1..(i - 1) : inv[j].pc = "done") /\ StepPair(i)

SpecSeq == InitPair /\ [][NextSeq]_vars

\* SpecChain: builders are derived from a root builder by chain calls, on any
\* builder made so far; one of them is compiled (execute) and the action is
\* invoked, while chain calls go on.

\* a chain call that writes the new definition into its receiver as well
replaceReceiver(bs, b, def) == Append([bs EXCEPT ![b] = def], def)

\* a chain call on builder b returns a new builder with definition def
derive(bs, b, def) == Append(bs, def)

Input(b, schema) ==
  /\ Len(builders) < MaxBuilders
  /\ builders' = derive(builders, b, inputMethod(builders[b], schema))
  /\ UNCHANGED <<defineFields, shared, compiled, ctx, parsedInput, parsedOutput, inv>>

Output(b, schema) ==
  /\ Len(builders) < MaxBuilders
  /\ builders' = derive(builders, b, outputMethod(builders[b], schema))
  /\ UNCHANGED <<defineFields, shared, compiled, ctx, parsedInput, parsedOutput, inv>>

Middleware(b) ==
  /\ Len(builders) < MaxBuilders
  /\ builders' = derive(builders, b,
       middlewareMethod(builders[b], MwNames[Len(builders[b].middlewares) + 1]))
  /\ UNCHANGED <<defineFields, shared, compiled, ctx, parsedInput, parsedOutput, inv>>

Meta(b, meta) ==
  /\ Len(builders) < MaxBuilders
  /\ builders' = derive(builders, b, metaMethod(builders[b], meta))
  /\ UNCHANGED <<defineFields, shared, compiled, ctx, parsedInput, parsedOutput, inv>>

Hook(b, type) ==
  /\ Len(builders) < MaxBuilders
  /\ builders' = derive(builders, b,
       hookMethod(builders[b], type,
                  HookNames[Len(HooksOf(builders[b], type)) + 1]))
  /\ UNCHANGED <<defineFields, shared, compiled, ctx, parsedInput, parsedOutput, inv>>

\* builder b compiles the action: execute(handler)
Execute(b) ==
  /\ compiled = 0
  /\ compiled' = b
  /\ UNCHANGED <<defineFields, shared, builders, ctx, parsedInput, parsedOutput, inv>>

ChainRoot ==
  create([defaultContext |-> Fn("provider"), errorHandler |-> Fn("errorHandler")])

InitChain ==
  /\ defineFields \in BOOLEAN
  /\ shared = CtxDefault
  /\ builders = <<ChainRoot>>
  /\ compiled = 0
  /\ ctx = Undef
  /\ parsedInput = Undef
  /\ parsedOutput = Undef
  /\ inv = [i \in Invs |-> Idle]

NextChain ==
  \/ \E b \in 1..Len(builders), schema \in {SchemaA, SchemaB} : Input(b, schema)
  \/ \E b \in 1..Len(builders) : Output(b, SchemaA)
  \/ \E b \in 1..Len(builders) : Middleware(b)
  \/ \E b \in 1..Len(builders), meta \in {MetaA, MetaB} : Meta(b, meta)
  \/ \E b \in 1..Len(builders), type \in HookTypes : Hook(b, type)
  \/ \E b \in 1..Len(builders) : Execute(b)
  \/ StepPair(1)

SpecChain == InitChain /\ [][NextChain]_vars

\* SpecFrame: the chain calls alone, on any builder made so far, from a root
\* made by the factory or by createActionBuilder with no options.
InitFrame ==
  /\ defineFields \in BOOLEAN
  /\ shared = CtxDefault
  /\ builders \in {<<ChainRoot>>, <<createActionBuilder(EmptyFn)>>}
  /\ compiled = 0
  /\ ctx = Undef
  /\ parsedInput = Undef
  /\ parsedOutput = Undef
  /\ inv = [i \in Invs |-> Idle]

NextFrame ==
  \/ \E b \in 1..Len(builders), schema \in {SchemaA, SchemaB} : Input(b, schema)
  \/ \E b \in 1..Len(builders) : Output(b, SchemaA)
  \/ \E b \in 1..Len(builders) : Middleware(b)
  \/ \E b \in 1..Len(builders), meta \in {MetaA, MetaB} : Meta(b, meta)
  \/ \E b \in 1..Len(builders), type \in HookTypes : Hook(b, type)

SpecFrame == InitFrame /\ [][NextFrame]_vars

\* SpecSchema: one invocation of an action whose definition has up to
\* MaxFragments input fragments and up to MaxFragments output fragments,
\* registered by successive input() / output() calls on a root builder with
\* no provider, middleware or hook.  The raw input and the handler's return
\* value are undefined or any object over the keys a and b.
RECURSIVE withInputs(_, _)
withInputs(def, seq) ==
  IF seq = <<>> THEN def
  ELSE inputMethod(withInputs(def, SubSeq(seq, 1, Len(seq) - 1)), seq[Len(seq)])

RECURSIVE withOutputs(_, _)
withOutputs(def, seq) ==
  IF seq = <<>> THEN def
  ELSE outputMethod(withOutputs(def, SubSeq(seq, 1, Len(seq) - 1)), seq[Len(seq)])

FragSeqs == UNION {[1..n -> Fragments] : n \in 0..MaxFragments}
schemaDef(seqIn, seqOut) == withOutputs(withInputs(create(EmptyFn), seqIn), seqOut)

SchemaVals ==
  {Undef} \cup {Obj(f) : f \in UNION {[K -> {"s1", "n1"}] : K \in SUBSET Keys}}

InitSchema ==
  /\ defineFields \in BOOLEAN
  /\ shared = CtxDefault
  /\ builders \in {<<schemaDef(seqIn, seqOut)>> : seqIn \in FragSeqs, seqOut \in FragSeqs}
  /\ compiled = 1
  /\ ctx = Undef
  /\ parsedInput = Undef
  /\ parsedOutput = Undef
  /\ inv = [i \in Invs |-> Idle]

NextSchema ==
  \/ \E rawInput \in SchemaVals : Invoke(1, rawInput)
  \/ CtxReady(1)
  \/ \E a \in Returns(SchemaVals) : HandlerStep(1, a)
  \/ HooksDone(1)

SpecSchema == InitSchema /\ [][NextSchema]_vars


\* SpecHooks: one invocation of an action with up to MaxAsyncHooks hooks per
\* lifecycle, each of them synchronous or asynchronous; the handler returns
\* or throws.
HookFamily ==
  {withHooks(withHooks(withHooks(root, "onSuccess", n), "onError", n),
             "onSettled", n) :
     root \in {create(EmptyFn), create([errorHandler |-> Fn("errorHandler")])},
     n \in 0..MaxAsyncHooks}

InitHooks ==
  /\ defineFields \in BOOLEAN
  /\ shared = CtxDefault
  /\ builders \in {<<def>> : def \in HookFamily}
  /\ compiled = 1
  /\ ctx = Undef
  /\ parsedInput = Undef
  /\ parsedOutput = Undef
  /\ inv = [i \in Invs |-> Idle]

NextHooks ==
  \/ Invoke(1, Undef)
  \/ CtxReady(1)
  \/ \E a \in Returns({Obj([a |-> "s1"])}) \cup Throws({Boom, Redirect}) :
       HandlerStep(1, a)
  \/ \E a \in Returns({Undef}) : ErrorHandlerStep(1, a)
  \/ \E a \in HookActs \cup {Promised} : HookStep(1, a)
  \/ \E a \in SettleActs : HookSettles(1, a)
  \/ HooksDone(1)

SpecHooks == InitHooks /\ [][NextHooks]_vars

\* SpecClassify: the handler throws a value of ThrownVals and the catch block
\* of execute() hands its classification to the error handler. ThrownVals has
\* ActionErrors made with and without a message and a cause, an ActionError
\* that carries the framework's mark, the framework's signals, generic
\* Errors, and values that are no Error.
Marked(error, kind) ==
  [t |-> error.t, code |-> error.code, message |-> error.message,
   cause |-> error.cause, kind |-> kind]
SignalKinds == {"NEXT_REDIRECT", "NEXT_NOT_FOUND"}
ThrownVals ==
  {ActionError([code |-> c]) : c \in Codes}
  \cup {ActionError([code |-> c, message |-> <<"m">>]) : c \in Codes}
  \cup {ActionError([code |-> c, cause |-> Boom]) : c \in Codes}
  \cup {Marked(ActionError([code |-> c]), k) : c \in Codes, k \in SignalKinds}
  \cup {NextSignal(k) : k \in SignalKinds}
  \cup {GenericError(m, cause) : m \in {<<>>, <<"boom">>}, cause \in {Undef, Boom}}
  \cup {OtherThrown, Undef, Null, EmptyObj, Obj([a |-> "s1"]), Fn("thrown")}

InitClassify ==
  /\ defineFields \in BOOLEAN
  /\ shared = CtxDefault
  /\ builders \in {<<create([errorHandler |-> Fn("errorHandler")])>>}
  /\ compiled = 1
  /\ ctx = Undef
  /\ parsedInput = Undef
  /\ parsedOutput = Undef
  /\ inv = [i \in Invs |-> Idle]

NextClassify ==
  \/ Invoke(1, Undef)
  \/ CtxReady(1)
  \/ \E a \in Throws(ThrownVals) : HandlerStep(1, a)
  \/ \E a \in Returns({Undef}) : ErrorHandlerStep(1, a)
  \/ HooksDone(1)

SpecClassify == InitClassify /\ [][NextClassify]_vars

\* SpecCreate: the factory is given options whose context provider and
\* error handler are absent, functions, or values that are not callable; the
\* action of the builder it returns is invoked once.
OptsOf(key, values) == {EmptyFn} \cup {[k \in {key} |-> v] : v \in values}
CreateOpts ==
  {Spread(Spread(c, e), mt) :
     c \in OptsOf("defaultContext", {Fn("provider"), EmptyObj, Obj([a |-> "s1"])}),
     e \in OptsOf("errorHandler", {Fn("errorHandler"), EmptyObj}),
     mt \in OptsOf("defaultMeta", {MetaA})}

InitCreate ==
  /\ defineFields \in BOOLEAN
  /\ shared = CtxDefault
  /\ builders \in {<<create(opts)>> : opts \in CreateOpts}
  /\ compiled = 1
  /\ ctx = Undef
  /\ parsedInput = Undef
  /\ parsedOutput = Undef
  /\ inv = [i \in Invs |-> Idle]

NextCreate ==
  \/ \E rawInput \in RawInputs(1) : Invoke(1, rawInput)
  \/ \E a \in ProviderActs : ProviderStep(1, a)
  \/ CtxReady(1)
  \/ \E a \in Returns({Obj([a |-> "s1"])}) \cup Throws({Boom}) : HandlerStep(1, a)
  \/ \E a \in ErrorHandlerActs : ErrorHandlerStep(1, a)
  \/ HooksDone(1)

SpecCreate == InitCreate /\ [][NextCreate]_vars

\* SpecCause: errors with causes. The middleware throws new Error("boom",
\* { cause }), which execute() turns into an ActionError with that cause;
\* the handler throws new ActionError(props) for props with and without a
\* message and a cause.
CauseVals ==
  {Undef, Null, Fn("cause"), Boom, Prim("s1"), Prim("n1"), EmptyObj,
   Obj([a |-> "s1"]), Obj([a |-> "s1", b |-> "n1"]), Arr(<<>>), Arr(<<"s1">>)}
PropsVals ==
  {Spread(Spread([code |-> c], mg), cs) :
     c \in Codes,
     mg \in OptsOf("message", {<<"given">>}),
     cs \in OptsOf("cause", CauseVals)}

InitCause ==
  /\ defineFields \in BOOLEAN
  /\ shared = CtxDefault
  /\ builders \in {<<withMiddlewares(create([errorHandler |-> Fn("errorHandler")]), n)>> :
                     n \in 0..1}
  /\ compiled = 1
  /\ ctx = Undef
  /\ parsedInput = Undef
  /\ parsedOutput = Undef
  /\ inv = [i \in Invs |-> Idle]

NextCause ==
  \/ Invoke(1, Undef)
  \/ \E a \in Nexts({Undef}) \cup Throws({GenericError(<<"boom">>, x) : x \in CauseVals}) :
       MiddlewareStep(1, a)
  \/ CtxReady(1)
  \/ \E props \in PropsVals : HandlerStep(1, [act |-> "throw", error |-> ActionError(props)])
  \/ \E a \in Returns({Undef}) : ErrorHandlerStep(1, a)
  \/ HooksDone(1)

SpecCause == InitCause /\ [][NextCause]_vars

\* SpecMeta: a root builder made by the factory or by createActionBuilder
\* itself, with or without a meta, then up to MaxMetaCalls meta() calls, a
\* middleware and one hook per lifecycle; the action is invoked once.
MetaVals == {MetaA, MetaB, Obj([a |-> "s2"])}
MetaSeqs == UNION {[1..n -> MetaVals] : n \in 0..MaxMetaCalls}
\* how the root is made: by the factory, or by createActionBuilder with a
\* context provider; and the metas it is given (none or one)
MetaRoots == [factory : BOOLEAN, given : {<<>>, <<MetaB>>}]
rootOf(r) ==
  IF r.factory
    THEN create(IF r.given = <<>> THEN EmptyFn ELSE [defaultMeta |-> r.given[1]])
    ELSE createActionBuilder(
           Spread([defaultContext |-> Fn("provider")],
                  IF r.given = <<>> THEN EmptyFn ELSE [meta |-> r.given[1]]))

RECURSIVE withMetas(_, _)
withMetas(def, seq) ==
  IF seq = <<>> THEN def
  ELSE withMetas(metaMethod(def, Head(seq)), Tail(seq))

metaDef(r, seq) ==
  LET d == middlewareMethod(withMetas(rootOf(r), seq), "m1")
  IN withHooks(withHooks(withHooks(d, "onSuccess", 1), "onError", 1), "onSettled", 1)

InitMeta ==
  /\ defineFields \in BOOLEAN
  /\ shared = CtxDefault
  /\ builders \in {<<metaDef(r, seq)>> : r \in MetaRoots, seq \in MetaSeqs}
  /\ compiled = 1
  /\ ctx = Undef
  /\ parsedInput = Undef
  /\ parsedOutput = Undef
  /\ inv = [i \in Invs |-> Idle]

NextMeta ==
  \/ Invoke(1, Undef)
  \/ \E a \in Returns({CtxDefault}) : ProviderStep(1, a)
  \/ \E a \in Nexts({Undef}) \cup Throws({Boom}) : MiddlewareStep(1, a)
  \/ CtxReady(1)
  \/ \E a \in Returns({Obj([a |-> "s1"])}) : HandlerStep(1, a)
  \/ \E a \in Returns({Undef}) : HookStep(1, a)
  \/ HooksDone(1)

SpecMeta == InitMeta /\ [][NextMeta]_vars

\* SpecDetach: one invocation of an action with one to MaxMw middlewares,
\* each of which returns next(...), awaits next(...) and returns nothing,
\* awaits next() and then returns next() (one of them, not the last), calls
\* next without waiting for it (any but the last), returns a value without
\* calling next, or throws.
InitDetach ==
  /\ defineFields \in BOOLEAN
  /\ shared = CtxDefault
  /\ builders \in
       {<<withHooks(withMiddlewares(ChainRoot, n), "onSettled", h)>> :
          n \in 1..MaxMw, h \in 0..1}
  /\ compiled = 1
  /\ ctx = Undef
  /\ parsedInput = Undef
  /\ parsedOutput = Undef
  /\ inv = [i \in Invs |-> Idle]

NextDetach ==
  \/ Invoke(1, Undef)
  \/ \E a \in Returns({CtxDefault}) : ProviderStep(1, a)
  \/ \E a \in Nexts({Undef, PatchA}) \cup [act : {"await"}, patch : {Undef, PatchA}]
               \cup [act : {"twice"}] \cup Returns({Undef, PatchB})
               \cup Throws({Boom}) :
       MiddlewareStep(1, a)
  \/ \E patch \in {Undef, PatchA} : DetachStep(1, patch)
  \/ \E a \in Nexts({Undef}) \cup Returns({Undef}) \cup Throws({Boom}) :
       DetachedSettles(1, a)
  \/ CtxReady(1)
  \/ \E a \in Returns({Undef}) \cup Throws({Boom}) : HandlerStep(1, a)
  \/ \E a \in Returns({Undef}) : ErrorHandlerStep(1, a)
  \/ \E a \in Returns({Undef}) : HookStep(1, a)
  \/ HooksDone(1)

SpecDetach == InitDetach /\ [][NextDetach]_vars

\* -------------------------------------------------------------- properties
HasEvent(l, ev) == \E p \in 1..Len(l.log) : l.log[p].ev = ev
HookRan(l, type) ==
  \E p \in 1..Len(l.log) : l.log[p].ev = "hook" /\ l.log[p].type = type
BatchStarts(l, type) ==
  {p \in 1..Len(l.log) : l.log[p].ev = "batch" /\ l.log[p].type = type}

\* C1: in every invocation the onSettled batch is started at most once, it has
\* been started exactly once when the invocation has settled (whether it
\* returned a success, returned a failure or rejected), and once it is
\* started nothing runs in the invocation but onSettled hooks: the handler,
\* the error handler and the onSuccess / onError batches are over.
C1_SettledOnce ==
  \A i \in Invs :
    LET l == inv[i] IN
    /\ Cardinality(BatchStarts(l, "onSettled")) <= 1
    /\ l.pc = "done" => Cardinality(BatchStarts(l, "onSettled")) = 1
    /\ \A p \in BatchStarts(l, "onSettled") :
         \A q \in (p + 1)..Len(l.log) :
           l.log[q].ev \in {"hook", "hookSettled"} /\ l.log[q].type = "onSettled"

\* the re-raise path has settled after onSuccess and onSettled hooks ran
C1_Witness ==
  /\ inv[1].pc = "done"
  /\ inv[1].outcome = Rejected(Redirect)
  /\ HookRan(inv[1], "onSuccess")
  /\ HookRan(inv[1], "onSettled")

\* a hook or the error handler threw in the invocation
CalleeFailed(l) ==
  \E p \in 1..Len(l.log) :
    l.log[p].ev \in {"hook", "hookSettled", "errorHandler"} /\ l.log[p].act = "throw"

\* the result has a data (an error) that is neither null nor undefined; a
\* result without the key has an undefined one
HasData(result) == "data" \in DOMAIN result /\ ~IsNullish(result.data)
HasError(result) == "error" \in DOMAIN result /\ ~IsNullish(result.error)

\* the invocation resolved to a failure that has no data and has the code and
\* the message of the classification of `raw`
IsFailureOf(outcome, raw) ==
  IF outcome.kind # "resolved" THEN FALSE
  ELSE IF outcome.value.success THEN FALSE
  ELSE /\ ~HasData(outcome.value)
       /\ HasError(outcome.value)
       /\ outcome.value.error.code = getFormattedError(raw).code
       /\ outcome.value.error.message = getFormattedError(raw).message

\* C2: when input validation, the default-context provider, a middleware,
\* the handler or output validation has failed with a value that is not
\* classified NEXT_ERROR, and neither a hook nor the error handler threw, the
\* settled invocation has not rejected: it has resolved to a failure (success
\* flag false, no data) whose error has the code and the message of the
\* classification of the value raised.
C2_FailureIsResult ==
  \A i \in Invs :
    LET l == inv[i] IN
    \A p \in 1..Len(l.log) :
      ( /\ l.pc = "done"
        /\ l.log[p].ev = "raised"
        /\ getFormattedError(l.log[p].error).code # "NEXT_ERROR"
        /\ ~CalleeFailed(l) )
      => IsFailureOf(l.outcome, l.log[p].error)

\* a middleware threw an ActionError; the error handler and an onError hook
\* ran; the invocation resolved to the BAD_REQUEST failure
C2_Witness ==
  /\ inv[1].pc = "done"
  /\ \E p \in 1..Len(inv[1].log) :
       /\ inv[1].log[p].ev = "raised"
       /\ inv[1].log[p].site = "middleware"
       /\ inv[1].log[p].error = BadRequest
  /\ HasEvent(inv[1], "errorHandler")
  /\ HookRan(inv[1], "onError")
  /\ IsFailureOf(inv[1].outcome, BadRequest)

\* C3: every result an invocation resolves to has exactly one of data and
\* error: a data that is neither null nor undefined and no error, or an
\* error and no data.
C3_ExactlyOne ==
  \A i \in Invs :
    inv[i].outcome.kind = "resolved" =>
      (HasData(inv[i].outcome.value) # HasError(inv[i].outcome.value))

\* C4: when the default-context provider, a middleware or the handler has
\* raised a redirect / not-found signal (and neither a hook nor the error
\* handler threw), the settled invocation has rejected with that very signal:
\* it has not resolved to a result, and what it rejected with is not another
\* error made from the signal.
C4_SignalRethrownAsIs ==
  \A i \in Invs :
    LET l == inv[i] IN
    \A p \in 1..Len(l.log) :
      ( /\ l.pc = "done"
        /\ l.log[p].ev = "raised"
        /\ l.log[p].site \in {"provider", "middleware", "handler"}
        /\ l.log[p].error.t = "NextSignal"
        /\ ~CalleeFailed(l) )
      => l.outcome = Rejected(l.log[p].error)

\* the data an invocation returns when its handler returned rawData
OwnData(def, rawData) ==
  Coalesce(parseSchema(def, combineSchema(def.outputs), rawData, "output").data,
           rawData)

\* C5: in every invocation, overlapping another or not, each hook that ran
\* was given the context that the invocation's own middleware stack resolved
\* and, where it is given an input, the invocation's own validated input; and
\* a success the invocation resolved to carries the data made from its own
\* handler's return value.
C5_InvocationsIndependent ==
  \A i \in Invs :
    LET l == inv[i] IN
    /\ \A p \in 1..Len(l.log) :
         l.log[p].ev = "hook" =>
           /\ l.log[p].opts.ctx = l.stackResult
           /\ "input" \in DOMAIN l.log[p].opts => l.log[p].opts.input = l.input
    /\ (IF l.outcome.kind = "resolved" THEN l.outcome.value.success ELSE FALSE)
         => l.outcome.value.data = OwnData(Def, l.rawData)

\* the middleware events of an invocation, in the order they happened
IsMiddlewareEvent(e) == e.ev = "middleware"
MwEvents(l) == SelectSeq(l.log, IsMiddlewareEvent)
AllCalledNext(l) == \A p \in 1..Len(MwEvents(l)) : MwEvents(l)[p].act = "next"

\* C6: once a middleware has returned without calling next, neither another
\* middleware nor the handler runs in the invocation.
C6_NoNextStopsPipeline ==
  \A i \in Invs :
    LET l == inv[i] IN
    \A p \in 1..Len(l.log) :
      (l.log[p].ev = "middleware" /\ l.log[p].act = "return") =>
        \A q \in (p + 1)..Len(l.log) : l.log[q].ev \notin {"middleware", "handler"}

\* C7: the middlewares of an invocation run in registration order (the p-th
\* to run is the p-th registered), each one after the first runs only after
\* the one before it called next, no middleware runs once the handler has
\* run, and when all of them called next the handler has run after the last
\* by the time the invocation settles.
C7_MiddlewareOrder ==
  \A i \in Invs :
    LET l == inv[i]
        mws == MwEvents(l)
    IN /\ Len(mws) <= Len(Def.middlewares)
       /\ \A p \in 1..Len(mws) :
            /\ mws[p].name = MwNames[p]
            /\ p > 1 => mws[p - 1].act = "next"
       /\ \A p \in 1..Len(l.log) :
            l.log[p].ev = "handler" =>
              /\ \A q \in (p + 1)..Len(l.log) : l.log[q].ev # "middleware"
              /\ AllCalledNext(l) => Len(mws) = Len(Def.middlewares)
       /\ (l.pc = "done" /\ AllCalledNext(l) /\ Len(mws) = Len(Def.middlewares)
              /\ Len(mws) > 0)
            => HasEvent(l, "handler")

\* two middlewares ran, both called next, the handler ran after them
C7_Witness ==
  /\ inv[1].pc = "done"
  /\ Len(MwEvents(inv[1])) = 2
  /\ AllCalledNext(inv[1])
  /\ HasEvent(inv[1], "handler")

\* the provider's resolved value (undefined when there is no provider) merged
\* with the patches of the first n middleware events, in their order
ProviderValue(l) ==
  IF \E p \in 1..Len(l.log) : l.log[p].ev = "provider"
    THEN (CHOOSE e \in {l.log[p] : p \in 1..Len(l.log)} : e.ev = "provider").value
    ELSE Undef

RECURSIVE MergedPatches(_, _, _)
MergedPatches(base, mws, n) ==
  IF n = 0 THEN base
  ELSE LET before == MergedPatches(base, mws, n - 1) IN
       IF IsNullish(mws[n].patch) THEN before
       ELSE IF IsNullish(before) THEN mws[n].patch
       ELSE Obj(Spread(before.v, mws[n].patch.v))

\* C8: when every middleware that ran returned next(...), the context the
\* handler was given is the provider's value with the patches of the
\* middlewares merged over it in registration order; with no middleware it
\* is the provider's value.
C8_ContextAccumulates ==
  \A i \in Invs :
    LET l == inv[i] IN
    \A p \in 1..Len(l.log) :
      (l.log[p].ev = "handler" /\ AllCalledNext(l)) =>
        l.log[p].ctx =
          MergedPatches(ProviderValue(l), MwEvents(l), Len(MwEvents(l)))

\* the provider gave {a}, the middlewares patched a and then b, the handler
\* got the patched a and b
C8_Witness ==
  /\ ProviderValue(inv[1]) = CtxDefault
  /\ Len(MwEvents(inv[1])) = 2
  /\ MwEvents(inv[1])[1].patch = PatchA
  /\ MwEvents(inv[1])[2].patch = PatchB
  /\ \E p \in 1..Len(inv[1].log) :
       /\ inv[1].log[p].ev = "handler"
       /\ inv[1].log[p].ctx = Obj([a |-> "s1", b |-> "n1"])

\* C10: with an output schema registered, the data of a success has the
\* fields of the combined output schema and no other: each with the value
\* the handler returned for it, and every other field the handler returned
\* is absent.
C10_OutputIsProjection ==
  \A i \in Invs :
    LET l == inv[i] IN
    ( /\ Len(Def.outputs) > 0
      /\ IF l.outcome.kind = "resolved" THEN l.outcome.value.success ELSE FALSE )
    => /\ IsObj(l.outcome.value.data)
       /\ DOMAIN l.outcome.value.data.v = DOMAIN combineSchema(Def.outputs).shape
       /\ \A k \in DOMAIN l.outcome.value.data.v :
            l.outcome.value.data.v[k] = l.rawData.v[k]

\* the handler returned a and b, the output schema has a: the data has a only
C10_Witness ==
  /\ Len(Def.outputs) > 0
  /\ inv[1].rawData = Obj([a |-> "s1", b |-> "n1"])
  /\ inv[1].outcome = Resolved([success |-> TRUE, data |-> Obj([a |-> "s1"])])

\* C9: no step changes the definition of a builder that exists: a chain call
\* leaves its receiver and every other builder as they were and adds one
\* builder, and the builder an action was compiled from stays the one the
\* action runs with, with the definition it had.
C9_ChainLeavesBuilders ==
  [][ /\ Len(builders') \in {Len(builders), Len(builders) + 1}
      /\ \A b \in 1..Len(builders) : builders'[b] = builders[b]
      /\ compiled # 0 => (compiled' = compiled /\ Def' = Def) ]_vars

\* two builders were derived from the root, one with an input schema and one
\* with a middleware; the action compiled from the root ran to the end, and
\* ran no middleware
C9_Witness ==
  /\ Len(builders) = 3
  /\ builders[1] = ChainRoot
  /\ builders[2] = inputMethod(ChainRoot, SchemaA)
  /\ builders[3] = middlewareMethod(ChainRoot, "m1")
  /\ compiled = 1
  /\ inv[1].pc = "done"
  /\ HasEvent(inv[1], "handler")
  /\ ~HasEvent(inv[1], "middleware")

\* the invocation resolved to a success / to a failure with the code
IsSuccessOutcome(outcome) ==
  IF outcome.kind = "resolved" THEN outcome.value.success ELSE FALSE
IsFailureWithCode(outcome, code) ==
  IF outcome.kind # "resolved" THEN FALSE
  ELSE IF outcome.value.success THEN FALSE
  ELSE outcome.value.error.code = code
RaisedAt(l, site) ==
  \E p \in 1..Len(l.log) : l.log[p].ev = "raised" /\ l.log[p].site = site

FieldsOf(seq) == UNION {DOMAIN seq[j].shape : j \in 1..Len(seq)}
LastType(seq, k) ==
  LET last == CHOOSE j \in 1..Len(seq) :
                /\ k \in DOMAIN seq[j].shape
                /\ \A j2 \in (j + 1)..Len(seq) : k \notin DOMAIN seq[j2].shape
  IN seq[last].shape[k]
Satisfies(seq, data) ==
  /\ IsObj(data)
  /\ \A k \in FieldsOf(seq) :
       k \in DOMAIN data.v /\ TypeOf(data.v[k]) = LastType(seq, k)
Restricted(seq, data) == Obj([k \in FieldsOf(seq) |-> data.v[k]])

\* C12: for a definition whose input fragments were registered as seqIn and
\* whose output fragments were registered as seqOut, in that order (at least
\* one in the direction checked), the raw input is accepted exactly when it has every field of
\* every input fragment with the type of the last fragment that names the
\* field, and the handler is then given the raw input restricted to those
\* fields; likewise the handler's return value is accepted exactly when it
\* satisfies the output fragments, and the success then carries it
\* restricted to their fields.
C12_FragmentsCombine ==
  LET l == inv[1] IN
  /\ \A seqIn \in FragSeqs :
       ( /\ Len(seqIn) > 0
         /\ l.pc # "idle"
         /\ Len(seqIn) = Len(Def.inputs)
         /\ Def.inputs = withInputs(create(EmptyFn), seqIn).inputs ) =>
         IF Satisfies(seqIn, l.rawInput)
           THEN /\ ~RaisedAt(l, "input")
                /\ l.input = Restricted(seqIn, l.rawInput)
                /\ \A p \in 1..Len(l.log) :
                     l.log[p].ev = "handler" =>
                       l.log[p].input = Restricted(seqIn, l.rawInput)
           ELSE RaisedAt(l, "input")
  /\ \A seqOut \in FragSeqs :
       ( /\ Len(seqOut) > 0
         /\ HasEvent(l, "handler")
         /\ Len(seqOut) = Len(Def.outputs)
         /\ Def.outputs = withOutputs(create(EmptyFn), seqOut).outputs ) =>
         IF Satisfies(seqOut, l.rawData)
           THEN /\ ~RaisedAt(l, "output")
                /\ l.pc = "done" =>
                     l.outcome = Resolved([success |-> TRUE,
                                           data |-> Restricted(seqOut, l.rawData)])
           ELSE RaisedAt(l, "output")

\* the input fragments {a: string}, {a: number} accept a raw input whose a
\* is a number and the handler sees a only; the output fragments {a: string},
\* {b: number} give a success with a and b
C12_Witness ==
  /\ Def = schemaDef(<<SchemaA, SchemaA2>>, <<SchemaA, SchemaB>>)
  /\ inv[1].rawInput = Obj([a |-> "n1", b |-> "n1"])
  /\ \E p \in 1..Len(inv[1].log) :
       /\ inv[1].log[p].ev = "handler"
       /\ inv[1].log[p].input = Obj([a |-> "n1"])
  /\ inv[1].outcome =
       Resolved([success |-> TRUE, data |-> Obj([a |-> "s1", b |-> "n1"])])

\* the fields of the fragments that data does not satisfy
Unsatisfied(seq, data) ==
  {k \in FieldsOf(seq) :
     k \notin DOMAIN data.v \/ TypeOf(data.v[k]) # LastType(seq, k)}

Caught(l) ==
  {getFormattedError(l.log[p].error) :
     p \in {q \in 1..Len(l.log) : l.log[q].ev = "raised"}}
  \cup
  {getFormattedError(l.log[p].thrown) :
     p \in {q \in 1..Len(l.log) :
              /\ l.log[q].ev \in {"hook", "hookSettled"}
              /\ l.log[q].phase = "try"
              /\ l.log[q].act = "throw"}}
ErrorHandlerCalls(l) == {p \in 1..Len(l.log) : l.log[p].ev = "errorHandler"}

\* C14: with an error handler configured, an invocation in which an error
\* was caught and classified calls the error handler exactly once, with the
\* code and message of the classified error, and no hook batch of the catch
\* block (onError, or onSuccess on the re-raise path) starts before that
\* call; an invocation in which no error was caught, and so every invocation
\* that resolves to a success, never calls it.
C14_ErrorHandlerOnce ==
  \A i \in Invs :
    LET l == inv[i] IN
    Truthy(Def.errorHandler) =>
      /\ Cardinality(ErrorHandlerCalls(l)) <= 1
      /\ (Caught(l) # {} /\ l.pc # "errorHandler") =>
           \E p \in ErrorHandlerCalls(l) :
             \E e \in Caught(l) :
               /\ l.log[p].error.code = e.code
               /\ l.log[p].error.message = e.message
      /\ Caught(l) = {} => ErrorHandlerCalls(l) = {}
      /\ IsSuccessOutcome(l.outcome) => ErrorHandlerCalls(l) = {}
      /\ \A p \in 1..Len(l.log) :
           (l.log[p].ev = "batch" /\ l.log[p].phase \in {"fail", "rethrow"}) =>
             \E q \in ErrorHandlerCalls(l) : q < p

\* the handler raised a redirect signal: the error handler got NEXT_ERROR,
\* then an onSuccess hook of the re-raise path ran
C14_Witness ==
  /\ inv[1].pc = "done"
  /\ \E p \in ErrorHandlerCalls(inv[1]) :
       /\ inv[1].log[p].error.code = "NEXT_ERROR"
       /\ \E q \in (p + 1)..Len(inv[1].log) :
            /\ inv[1].log[q].ev = "hook"
            /\ inv[1].log[q].phase = "rethrow"
  /\ RaisedAt(inv[1], "handler")

\* the hooks that ran in a phase of the invocation, as positions of the log
HookRuns(l, phase) ==
  {p \in 1..Len(l.log) : l.log[p].ev = "hook" /\ l.log[p].phase = phase}
RethrowStarts(l) ==
  {p \in 1..Len(l.log) : l.log[p].ev = "batch" /\ l.log[p].phase = "rethrow"}

\* C15: when the caught error is classified NEXT_ERROR and the error handler
\* (if any) has returned, the catch block starts the onSuccess batch and the
\* invocation never starts the onError batch; the error handler has returned
\* before that batch starts; the onSettled batch starts only after every
\* onSuccess hook of the batch ran (all of them, in order, unless one
\* threw); and the invocation rejects with the caught error only once the
\* onSettled hooks have run too (unless a hook threw).
C15_RethrowPath ==
  \A i \in Invs :
    LET l == inv[i]
        n == Len(HooksOf(Def, "onSuccess"))
    IN
    /\ ( /\ \E e \in Caught(l) : e.code = "NEXT_ERROR"
         /\ l.pc # "errorHandler"
         /\ \A q \in ErrorHandlerCalls(l) : l.log[q].act = "return" )
       => RethrowStarts(l) # {}
    /\ \A p \in RethrowStarts(l) :
         /\ l.log[p].type = "onSuccess"
         /\ BatchStarts(l, "onError") = {}
         /\ Truthy(Def.errorHandler) =>
              \E q \in ErrorHandlerCalls(l) :
                /\ q < p
                /\ l.log[q].act = "return"
                /\ l.log[q].error.code = "NEXT_ERROR"
         /\ \A q \in HookRuns(l, "rethrow") : q > p /\ l.log[q].type = "onSuccess"
         /\ \A s \in BatchStarts(l, "onSettled") :
              /\ s > p
              /\ \A q \in HookRuns(l, "rethrow") : q < s
              /\ \/ \E q \in (p + 1)..(s - 1) : l.log[q].act = "throw"
                 \/ /\ Cardinality(HookRuns(l, "rethrow")) = n
                    /\ \A q1, q2 \in HookRuns(l, "rethrow") :
                         q1 < q2 <=> l.log[q1].k < l.log[q2].k
                    /\ \A q \in HookRuns(l, "rethrow") :
                         l.log[q].act = "pending" =>
                           /\ q + 1 < s
                           /\ l.log[q + 1].ev = "hookSettled"
         /\ l.pc # "done" => l.outcome = Pending
         /\ (l.pc = "done" /\ ~CalleeFailed(l)) =>
              /\ l.outcome = Rejected(l.error)
              /\ Cardinality(HookRuns(l, "finally")) = Len(HooksOf(Def, "onSettled"))
              /\ BatchStarts(l, "onSettled") # {}

\* the handler raised a redirect signal; the error handler returned, two
\* onSuccess hooks and then an onSettled hook ran, and the invocation
\* rejected with the signal
C15_Witness ==
  /\ inv[1].pc = "done"
  /\ inv[1].outcome = Rejected(Redirect)
  /\ \E q \in ErrorHandlerCalls(inv[1]) : inv[1].log[q].act = "return"
  /\ Cardinality(HookRuns(inv[1], "rethrow")) = 2
  /\ Cardinality(HookRuns(inv[1], "finally")) >= 1
  /\ BatchStarts(inv[1], "onError") = {}

\* the hooks called in the onSuccess batch of the try block, in call order
IsTryHook(e) == e.ev = "hook" /\ e.phase = "try"
TryHooks(l) == SelectSeq(l.log, IsTryHook)

\* C16: the hooks of a batch are called one at a time in registration order
\* (the definitions checked register h1, h2, ... in that order): the first
\* hook called in a batch is the first registered, the hook called after
\* hook k in the batch is hook k + 1, a hook that returned a pending promise
\* is followed by the settling of that promise before anything else happens
\* in the invocation, and an invocation that resolves to a success has called
\* every onSuccess hook, in registration order.
C16_HooksInOrder ==
  \A i \in Invs :
    LET l == inv[i] IN
    /\ \A p \in 1..Len(l.log) :
         l.log[p].ev = "hook" =>
           /\ l.log[p].name = HookNames[l.log[p].k]
           /\ l.log[p - 1].ev = "batch" => l.log[p].k = 1
           /\ l.log[p - 1].ev = "hook" =>
                /\ l.log[p - 1].act = "return"
                /\ l.log[p - 1].type = l.log[p].type
                /\ l.log[p].k = l.log[p - 1].k + 1
           /\ l.log[p - 1].ev = "hookSettled" =>
                /\ l.log[p - 1].act = "return"
                /\ l.log[p - 1].type = l.log[p].type
                /\ l.log[p].k = l.log[p - 1].k + 1
           /\ l.log[p - 1].ev \in {"batch", "hook", "hookSettled"}
           /\ (l.log[p].act = "pending" /\ p < Len(l.log)) =>
                /\ l.log[p + 1].ev = "hookSettled"
                /\ l.log[p + 1].k = l.log[p].k
           /\ (l.log[p].act = "pending" /\ p = Len(l.log)) => l.pc = "hookPending"
    /\ IsSuccessOutcome(l.outcome) =>
         /\ Len(TryHooks(l)) = Len(HooksOf(Def, "onSuccess"))
         /\ \A k \in 1..Len(TryHooks(l)) : TryHooks(l)[k].name = HookNames[k]

\* a success after h1 of onSuccess returned a promise, the promise
\* fulfilled, and then h2 and h3 were called
C16_Witness ==
  /\ IsSuccessOutcome(inv[1].outcome)
  /\ Len(TryHooks(inv[1])) = 3
  /\ TryHooks(inv[1])[1].act = "pending"
  /\ TryHooks(inv[1])[1].name = "h1"
  /\ TryHooks(inv[1])[2].name = "h2"
  /\ TryHooks(inv[1])[3].name = "h3"

C18_ClassifyRules ==
  \A i \in Invs :
    LET l == inv[i] IN
    \A p \in 1..Len(l.log) :
      (l.log[p].ev = "errorHandler" /\ l.log[p - 1].ev = "raised") =>
        LET raw == l.log[p - 1].error
            r == l.log[p].error
        IN
        /\ r = getFormattedError(raw)
        /\ r.code \in Codes
        /\ IF raw.t = "ActionError"
             THEN r.code = raw.code /\ r.message = raw.message
           ELSE IF raw.t = "NextSignal"
             THEN r.code = "NEXT_ERROR" /\ r.cause = raw
           ELSE IF raw.t = "Error"
             THEN r.code = "ERROR" /\ r.message = raw.message
           ELSE /\ r.code = "INTERNAL_ERROR"
                /\ r.message = <<"An unexpected error has occurred">>
                /\ "cause" \notin DOMAIN r

\* the error handler was given the classification of an ActionError that
\* carries the framework's mark: the code of the ActionError
C18_Witness ==
  /\ Len(inv[1].log) >= 3
  /\ inv[1].log[2].ev = "raised"
  /\ inv[1].log[2].error = Marked(ActionError([code |-> "FORBIDDEN"]), "NEXT_REDIRECT")
  /\ inv[1].log[3].ev = "errorHandler"
  /\ inv[1].log[3].error.code = "FORBIDDEN"

\* C19: create(options) produces no builder when options supplies a context
\* provider or an error handler that is not callable: every builder the
\* factory produced has a context provider that is absent or callable and an
\* error handler that is absent or callable, so that no invocation ever
\* meets one that is not.
C19_CreateValidates ==
  /\ \A b \in 1..Len(builders) :
       /\ Truthy(builders[b].defaultContext) => Callable(builders[b].defaultContext)
       /\ Truthy(builders[b].errorHandler) => Callable(builders[b].errorHandler)
  /\ \A i \in Invs :
       \A p \in 1..Len(inv[i].log) :
         inv[i].log[p].ev = "raised" =>
           inv[i].log[p].error.message
             \notin {<<"_def.defaultContext is not a function">>,
                      <<"builder._def.errorHandler is not a function">>}

\* the Result<T> of errors.ts for what the invocation resolved to
ResultOf(value) ==
  IF value.success THEN SuccessResult(value.data) ELSE FailureResult(value.error)

\* C20: for the Result of every invocation that resolved, exactly one of
\* isSuccess and isFailure holds.
C20_PredicatesExclusive ==
  \A i \in Invs :
    inv[i].outcome.kind = "resolved" =>
      isSuccessByError(ResultOf(inv[i].outcome.value))
        # isFailure(ResultOf(inv[i].outcome.value))

\* C21: getCauseFromUnknown(x) is undefined exactly when x is undefined,
\* null or a function; it is x when x is an Error; it is an Error whose
\* message is String(x) when x is a primitive; and for every other value it
\* is an Error that has the keys of x. Read where execute() makes an
\* ActionError of the Error with cause x that a middleware threw, in a build
\* whose ActionError keeps the cause it is given.
C21_WrapCause ==
  \A i \in Invs :
    LET l == inv[i] IN
    \A p \in 1..Len(l.log) :
      ( /\ ~defineFields
        /\ l.log[p].ev = "errorHandler"
        /\ l.log[p - 1].ev = "raised"
        /\ l.log[p - 1].site = "middleware" ) =>
        LET x == l.log[p - 1].error.cause
            r == l.log[p].error.cause
        IN
        /\ r = Undef <=> (x = Undef \/ x = Null \/ Callable(x))
        /\ IsErrorInstance(x) => r = x
        /\ x.t = "primitive" => r = GenericError(<<x.v>>, Undef)
        /\ x.t \in {"obj", "array"} =>
             /\ r.t = "Error"
             /\ IF "own" \in DOMAIN r THEN r.own = x.v ELSE FALSE

\* the props the handler may have given to new ActionError to throw `error`
PropsOf(error) == {props \in PropsVals : ActionError(props) = error}
HasCause(props) ==
  IF "cause" \in DOMAIN props
    THEN ~IsNullish(props.cause) /\ ~Callable(props.cause)
    ELSE FALSE

\* C22: an ActionError made with a cause that is not undefined, null or a
\* function has the normalized cause as its cause; the classification the
\* error handler is given has that cause, and so has the error of the
\* failure the invocation resolves to.
C22_CauseKept ==
  \A i \in Invs :
    LET l == inv[i] IN
    \A p \in 1..Len(l.log) :
      (l.log[p].ev = "raised" /\ l.log[p].site = "handler") =>
        \A props \in PropsOf(l.log[p].error) :
          HasCause(props) =>
            LET cause == getCauseFromUnknown(props.cause) IN
            /\ l.log[p].error.cause = cause
            /\ p < Len(l.log) => l.log[p + 1].error.cause = cause
            /\ l.outcome.kind = "resolved" => l.outcome.value.error.cause = cause

\* the message the claim gives to new ActionError(props)
MessageOf(props) ==
  LET cause == getCauseFromUnknown(PropOf(props, "cause")) IN
  IF "message" \in DOMAIN props THEN props.message
  ELSE IF cause # Undef THEN cause.message
  ELSE DEFAULT_ERROR_MESSAGES(props.code)

\* C23: the message of new ActionError(props) is the message of props when
\* it has one, else the message of the normalized cause when there is one,
\* else the default message of the code; every code has a default message
\* that is not empty; and the error the invocation resolves to carries that
\* message.
C23_MessageResolution ==
  /\ \A c \in Codes : Len(DEFAULT_ERROR_MESSAGES(c)) > 0
  /\ \A i \in Invs :
       LET l == inv[i] IN
       \A p \in 1..Len(l.log) :
         (l.log[p].ev = "raised" /\ l.log[p].site = "handler") =>
           /\ PropsOf(l.log[p].error) # {}
           /\ \A props \in PropsOf(l.log[p].error) :
                /\ l.log[p].error.message = MessageOf(props)
                /\ l.outcome.kind = "resolved" =>
                     l.outcome.value.error.message = MessageOf(props)
           /\ "message" \in DOMAIN l.log[p].error

\* the handler threw new ActionError({ code: "FORBIDDEN", cause: "s1" }) and
\* the invocation resolved to a failure whose message is "s1"
C23_Witness ==
  /\ inv[1].pc = "done"
  /\ \E p \in 1..Len(inv[1].log) :
       /\ inv[1].log[p].ev = "raised"
       /\ [code |-> "FORBIDDEN", cause |-> Prim("s1")] \in PropsOf(inv[1].log[p].error)
  /\ IsFailureWithCode(inv[1].outcome, "FORBIDDEN")
  /\ inv[1].outcome.value.error.message = <<"s1">>

\* the shallow merge of the metas of a list, in order: absent for the empty
\* list, else every key of some meta with the value of the last that has it
MergedMetas(metas) ==
  IF metas = <<>> THEN Undef
  ELSE LET having(k) == {p \in 1..Len(metas) : k \in DOMAIN metas[p].v}
           last(k) == CHOOSE p \in having(k) : \A q \in having(k) : q <= p
       IN Obj([k \in UNION {DOMAIN metas[p].v : p \in 1..Len(metas)} |->
                 metas[last(k)].v[k]])

\* C24: the meta of a definition made of a root and a sequence of meta()
\* calls is the shallow merge, in call order, of the meta the root was given
\* and the metas of the calls, and it is absent when there is none; every
\* middleware and every hook of an invocation is given that meta.
C24_MetaAccumulates ==
  /\ \A r \in MetaRoots, seq \in MetaSeqs :
       Def = metaDef(r, seq) => Def.meta = MergedMetas(r.given \o seq)
  /\ \A i \in Invs :
       \A p \in 1..Len(inv[i].log) :
         /\ inv[i].log[p].ev = "middleware" => inv[i].log[p].meta = Def.meta
         /\ inv[i].log[p].ev = "hook" => inv[i].log[p].opts.meta = Def.meta

\* definition N has the value of definition R in every field but one
SameExcept(R, N, field) ==
  /\ DOMAIN N = DOMAIN R
  /\ \A f \in DOMAIN R \ {field} : N[f] = R[f]

\* list N is list R with one element added at the end
OneAppended(R, N) == Len(N) = Len(R) + 1 /\ SubSeq(N, 1, Len(R)) = R

\* C25: a chain method changes only its own field: input, output and
\* middleware add one element at the end of their own list, hook(type, fn)
\* adds fn at the end of the list of that lifecycle and leaves the lists of
\* the other lifecycles, meta changes the meta; every other field of the new
\* definition is the receiver's.
C25_ChainFrame ==
  [][ \A b \in 1..Len(builders) :
        Len(builders') > Len(builders) =>
        LET R == builders[b]
            N == builders'[Len(builders')]
        IN /\ \A schema \in {SchemaA, SchemaB} :
                Input(b, schema) =>
                  N.inputs = Append(R.inputs, schema) /\ SameExcept(R, N, "inputs")
           /\ Output(b, SchemaA) =>
                N.outputs = Append(R.outputs, SchemaA) /\ SameExcept(R, N, "outputs")
           /\ Middleware(b) =>
                OneAppended(R.middlewares, N.middlewares)
                  /\ SameExcept(R, N, "middlewares")
           /\ \A type \in HookTypes :
                Hook(b, type) =>
                  /\ OneAppended(HooksOf(R, type), HooksOf(N, type))
                  /\ \A t \in HookTypes \ {type} : HooksOf(N, t) = HooksOf(R, t)
                  /\ SameExcept(R, N, "hooks")
           /\ \A meta \in {MetaA, MetaB} :
                Meta(b, meta) => SameExcept(R, N, "meta") ]_vars

\* the chain has the root, a builder with a hook and, derived from that one,
\* a builder with an input schema, which has the hook
C25_Witness ==
  /\ Len(builders) = 3
  /\ builders[2] = hookMethod(ChainRoot, "onError", "h1")
  /\ builders[3] = inputMethod(builders[2], SchemaB)
  /\ HooksOf(builders[3], "onError") = <<"h1">>

\* C26: an invocation runs hooks of one batch among onSuccess and onError:
\* never hooks of both lifecycles, and an invocation that is over has started
\* exactly one batch of the two.
C26_OneBatch ==
  \A i \in Invs :
    /\ ~(HookRan(inv[i], "onSuccess") /\ HookRan(inv[i], "onError"))
    /\ inv[i].pc = "done" =>
         Cardinality(BatchStarts(inv[i], "onSuccess")
                       \cup BatchStarts(inv[i], "onError")) = 1

\* the levels of the middlewares that were called and had not come to their
\* end before event p of the log: a middleware whose next is awaited is over
\* when its step is, one that runs apart when it settles
Executing(l, p) ==
  {l.log[q].idx : q \in {q \in 1..(p - 1) :
     /\ l.log[q].ev = "detachedCall"
     /\ ~\E r \in (q + 1)..(p - 1) :
          l.log[r].ev = "detachedSettled" /\ l.log[r].idx = l.log[q].idx}}

\* C27: the handler is not called while a middleware of the invocation is
\* still executing, whatever the middlewares do, a middleware that calls next
\* without waiting for or returning its result included.
C27_NoOverlap ==
  \A i \in Invs :
    \A p \in 1..Len(inv[i].log) :
      inv[i].log[p].ev = "handler" => Executing(inv[i], p) = {}

\* C28: an invocation that fails at input validation, called when the
\* invocations before it are over, gives its onError and onSettled hooks no
\* context: not the context an earlier invocation left, and no validated
\* input of an earlier invocation either.
C28_NoStaleContext ==
  \A i \in Invs :
    RaisedAt(inv[i], "input") =>
      \A p \in 1..Len(inv[i].log) :
        (inv[i].log[p].ev = "hook" /\ inv[i].log[p].type \in {"onError", "onSettled"})
          => /\ inv[i].log[p].opts.ctx = Undef
             /\ "input" \notin DOMAIN inv[i].log[p].opts

\* the keys of a context or of a patch; none for an absent one
KeysOf(c) == IF IsObj(c) THEN DOMAIN c.v ELSE {}

\* C29: when a middleware calls next(patch), the context the next middleware
\* is given is the shallow merge of the context the caller was given and the
\* patch: its keys are the keys of both, a key of the patch has the patch's
\* value, any other key keeps its value; with no patch it is the context the
\* caller was given.
C29_NextMerges ==
  \A i \in Invs :
    LET mws == MwEvents(inv[i]) IN
    \A n \in 1..(Len(mws) - 1) :
      mws[n].act = "next" =>
        LET cur == mws[n].ctx
            patch == mws[n].patch
            nxt == mws[n + 1].ctx
        IN /\ mws[n + 1].idx = mws[n].idx + 1
           /\ KeysOf(nxt) = KeysOf(cur) \cup KeysOf(patch)
           /\ \A k \in KeysOf(patch) : nxt.v[k] = patch.v[k]
           /\ \A k \in KeysOf(cur) \ KeysOf(patch) : nxt.v[k] = cur.v[k]
           /\ IsNullish(patch) => nxt = cur

\* the first middleware was given {a} by the provider and called next with a
\* patch of b; the second was given a, as it was, with b, called next with a
\* patch of a, and the handler was called
C29_Witness ==
  /\ Len(MwEvents(inv[1])) = 2
  /\ MwEvents(inv[1])[1].ctx = CtxDefault
  /\ MwEvents(inv[1])[1].patch = PatchB
  /\ MwEvents(inv[1])[2].ctx = Obj([a |-> "s2", b |-> "n1"])
  /\ MwEvents(inv[1])[2].patch = PatchA
  /\ HasEvent(inv[1], "handler")

\* C30: an action whose definition has no default-context provider runs all
\* the same: nothing is raised for the provider, the first middleware (the
\* handler, when there is no middleware) is given an empty or absent context,
\* and an invocation that is over, whose input was valid and whose
\* middlewares all called next, called the handler.
C30_NoProviderRuns ==
  \A i \in Invs :
    LET l == inv[i] IN
    (compiled # 0 /\ ~Callable(Def.defaultContext)) =>
      /\ ~RaisedAt(l, "provider")
      /\ \A p \in 1..Len(l.log) :
           \/ (l.log[p].ev = "middleware" /\ l.log[p].idx = 1)
           \/ (l.log[p].ev = "handler" /\ Len(Def.middlewares) = 0)
           => l.log[p].ctx \in {Undef, EmptyObj}
      /\ ( /\ l.pc = "done"
           /\ ~RaisedAt(l, "input")
           /\ ~RaisedAt(l, "middleware")
           /\ AllCalledNext(l) )
         => HasEvent(l, "handler")

HandlerCalls(l) == {p \in 1..Len(l.log) : l.log[p].ev = "handler"}

Propagated(l) ==
  {p \in 1..Len(l.log) :
     /\ \/ l.log[p].ev = "errorHandler"
        \/ l.log[p].ev \in {"hook", "hookSettled"} /\ l.log[p].type = "onError"
     /\ l.log[p].act = "throw"}
SettledHookThrew(l) ==
  \E p \in 1..Len(l.log) :
    /\ l.log[p].ev \in {"hook", "hookSettled"}
    /\ l.log[p].type = "onSettled"
    /\ l.log[p].act = "throw"

\* C32: when the error handler or an onError hook throws, nothing of the
\* catch block runs after it (no onError hook, no hook batch but onSettled),
\* the onSettled batch is started, and the invocation, once over, has
\* rejected with the value thrown (unless an onSettled hook threw in turn)
\* and has not returned a Result.
C32_CalleeFailurePropagates ==
  \A i \in Invs :
    LET l == inv[i] IN
    \A p \in Propagated(l) :
      /\ \A q \in (p + 1)..Len(l.log) :
           /\ l.log[q].ev \in {"hook", "hookSettled", "batch"} =>
                l.log[q].type = "onSettled"
           /\ l.log[q].ev \notin {"errorHandler", "handler", "middleware"}
      /\ Cardinality(BatchStarts(l, "onSettled")) = 1
      /\ \A q \in BatchStarts(l, "onSettled") : q > p
      /\ l.pc = "done" =>
           /\ l.outcome.kind = "rejected"
           /\ ~SettledHookThrew(l) => l.outcome = Rejected(l.log[p].thrown)

\* the first of two onError hooks threw: the second did not run, the
\* onSettled hooks did, and the invocation rejected with what the hook threw
C32_Witness ==
  /\ Len(HooksOf(Def, "onError")) = 2
  /\ \E p \in Propagated(inv[1]) :
       inv[1].log[p].ev = "hook" /\ inv[1].log[p].k = 1
  /\ Cardinality({p \in 1..Len(inv[1].log) :
                    inv[1].log[p].ev = "hook" /\ inv[1].log[p].type = "onError"}) = 1
  /\ HookRan(inv[1], "onSettled")
  /\ inv[1].pc = "done"
  /\ inv[1].outcome = Rejected(Boom)

\* C33: when every function of the caller comes to its end, an invocation
\* that was called is eventually over, with a Result it returned or a value
\* it rejected with; so is one in which a middleware returned without
\* calling next.
C33_Terminates ==
  \A i \in {1} :
    (inv[i].pc # "idle") ~>
      (inv[i].pc = "done" /\ inv[i].outcome.kind \in {"resolved", "rejected"})

\* the first middleware returned without calling next and the invocation is
\* over with a Result
C33_Witness ==
  /\ Len(MwEvents(inv[1])) = 1
  /\ MwEvents(inv[1])[1].act = "return"
  /\ inv[1].pc = "done"
  /\ inv[1].outcome.kind = "resolved"

\* the value the combined input schema makes of the raw input of l
ValidatedInput(l) ==
  parseSchema(Def, combineSchema(Def.inputs), l.rawInput, "input").data

\* C34: every middleware and every hook of an invocation is given the
\* caller's argument as rawInput, and every middleware, the handler and every
\* onSuccess hook is given as input the value the combined input schema made
\* of that argument.
C34_InputsDelivered ==
  \A i \in Invs :
    LET l == inv[i] IN
    \A p \in 1..Len(l.log) :
      /\ l.log[p].ev = "middleware" =>
           l.log[p].rawInput = l.rawInput /\ l.log[p].input = ValidatedInput(l)
      /\ l.log[p].ev = "handler" => l.log[p].input = ValidatedInput(l)
      /\ l.log[p].ev = "hook" =>
           /\ l.log[p].opts.rawInput = l.rawInput
           /\ l.log[p].type = "onSuccess" =>
                l.log[p].opts.input = ValidatedInput(l)

\* what the level of middleware event n returns: what the middleware
\* returned (for `return next(...)` what the next level returns, or the
\* context passed on when there is no next level; nothing when next was
\* awaited or left alone; for `await next(); return next()` what the next
\* level returns the second time it is entered), or else the context the
\* level was given
RECURSIVE LevelResult(_, _)
LevelResult(mws, n) ==
  LET e == mws[n]
      entered == {m \in (n + 1)..Len(mws) : mws[m].idx = e.idx + 1}
      returned ==
        IF e.act = "return" THEN e.value
        ELSE IF e.act = "twice"
          THEN IF Cardinality(entered) < 2 THEN Undef
               ELSE LevelResult(mws, CHOOSE m \in entered :
                                       \A o \in entered : o <= m)
        ELSE IF e.act # "next" THEN Undef
        ELSE IF n < Len(mws) THEN LevelResult(mws, n + 1)
        ELSE MergedPatches(e.ctx, <<e>>, 1)
  IN IF IsNullish(returned) THEN e.ctx ELSE returned

\* C35: the context the handler is given is what the first level returns,
\* each level returning what its middleware returned unless that is null or
\* undefined, and else the context it was given.  So when a middleware
\* returned a value without calling next (the ones before it returning
\* next(...)) that value is the final context, and when a middleware called
\* next and returned nothing, the final context is the context that
\* middleware was given: no patch of a later middleware is in it.
C35_LevelResult ==
  \A i \in Invs :
    LET l == inv[i]
        mws == MwEvents(l)
        FirstNot(n) == \A m \in 1..(n - 1) : mws[m].act = "next"
    IN \A p \in HandlerCalls(l) :
         /\ Len(mws) > 0 => l.log[p].ctx = LevelResult(mws, 1)
         /\ \A n \in 1..Len(mws) :
              /\ (FirstNot(n) /\ mws[n].act = "return" /\ ~IsNullish(mws[n].value))
                   => l.log[p].ctx = mws[n].value
              /\ (FirstNot(n) /\ mws[n].act \in {"await", "detach"})
                   => l.log[p].ctx = mws[n].ctx

\* the first middleware awaited next with a patch of a and returned nothing,
\* the second returned next(): the handler got the provider's context, in
\* which a has the provider's value
C35_Witness ==
  /\ Len(MwEvents(inv[1])) = 2
  /\ MwEvents(inv[1])[1].act = "await"
  /\ MwEvents(inv[1])[1].patch = PatchA
  /\ MwEvents(inv[1])[2].ctx = Obj([a |-> "s1"])
  /\ MwEvents(inv[1])[2].act = "next"
  /\ \E p \in HandlerCalls(inv[1]) : inv[1].log[p].ctx = CtxDefault

\* the events in which the error handler or a hook threw
Throwers(l) ==
  {p \in 1..Len(l.log) :
     /\ l.log[p].ev \in {"hook", "hookSettled", "errorHandler"}
     /\ l.log[p].act = "throw"}

C37_SuccessHookOnce ==
  \A i \in Invs :
    \A k \in 1..Len(HooksOf(Def, "onSuccess")) :
      Cardinality({p \in 1..Len(inv[i].log) :
                     /\ inv[i].log[p].ev = "hook"
                     /\ inv[i].log[p].type = "onSuccess"
                     /\ inv[i].log[p].k = k}) <= 1

\* C38: in an invocation every registered middleware is called at most once,
\* whatever the middlewares do.
C38_MiddlewareOnce ==
  \A i \in Invs :
    \A j \in 1..Len(Def.middlewares) :
      Cardinality({p \in 1..Len(inv[i].log) :
                     inv[i].log[p].ev = "middleware" /\ inv[i].log[p].idx = j}) <= 1

\* C39: the core writes neither to the object the provider returned nor to a
\* context it gave to a middleware.  The object that the provider returns to
\* every invocation has, after any number of invocations, overlapping or
\* not, the keys and values it started with, and the provider's value of
\* every invocation is that; each middleware patch is in the context of the
\* levels after it only.
C39_ContextNotMutated ==
  /\ shared = CtxDefault
  /\ \A i \in Invs :
       \A p \in 1..Len(inv[i].log) :
         /\ (inv[i].log[p].ev = "provider" /\ inv[i].log[p].act = "return")
              => inv[i].log[p].value = CtxDefault
         /\ (inv[i].log[p].ev = "middleware" /\ inv[i].log[p].idx = 1)
              => inv[i].log[p].ctx = CtxDefault

\* both invocations are over; the middleware of each called next with a
\* patch that gives key a another value, which the handler of each was given
C39_Witness ==
  /\ \A i \in Invs :
       /\ inv[i].pc = "done"
       /\ \E p \in 1..Len(inv[i].log) :
            /\ inv[i].log[p].ev = "middleware"
            /\ inv[i].log[p].act = "next"
            /\ inv[i].log[p].patch = OwnPatch(i)
       /\ \E p \in HandlerCalls(inv[i]) :
            inv[i].log[p].ctx.v.a = OwnStr(i)
  /\ shared.v.a = "s2"

=============================================================================
